---- MODULE Spec2Model ----
(***************************************************************************)
(* A model of github.com/cnk3x/flags: the struct-tag to flag binders       *)
(* (StructToSet/AddToSet over pflag, Bind over the standard flag package), *)
(* the environment lookup and the reflection value codec                    *)
(* (reflectSet / FieldItem.Set / FieldItem.String).                         *)
(*                                                                         *)
(* Text is a sequence of one-character strings, so that parsing and        *)
(* formatting are computed character by character as the code does.        *)
(***************************************************************************)
EXTENDS Integers, Sequences, FiniteSets, TLC

\* ------------------------------------------------------------------ bounds

\* Longest sequence value a sequence field grows to in the codec model.
MaxSeq == 2
\* Most flag occurrences on a command line.
MaxArgs == 2
MaxKeys == 2

\* -------------------------------------------------------------------- text

Digits == <<"0", "1", "2", "3", "4", "5", "6", "7", "8", "9">>

IsDigit(c) == \E i \in 1..10 : Digits[i] = c

DigitVal(c) == (CHOOSE i \in 1..10 : Digits[i] = c) - 1

AllDigits(s) == \A i \in 1..Len(s) : IsDigit(s[i])

\* The value of a run of digits in the given base (digits checked by the caller).
RECURSIVE DigitsValue(_, _)
DigitsValue(s, base) ==
    IF s = <<>> THEN 0
    ELSE DigitsValue(SubSeq(s, 1, Len(s) - 1), base) * base + DigitVal(s[Len(s)])

\* strconv.FormatUint(n, 10)
RECURSIVE FormatUint(_)
FormatUint(n) ==
    IF n < 10 THEN <<Digits[n + 1]>>
    ELSE FormatUint(n \div 10) \o <<Digits[(n % 10) + 1]>>

\* strconv.FormatInt(n, 10)
FormatInt(n) == IF n < 0 THEN <<"-">> \o FormatUint(-n) ELSE FormatUint(n)

\* A parse result: ok with a value, or a failure naming the error.
Ok(v) == [ok |-> TRUE, v |-> v, err |-> ""]
Fail(e) == [ok |-> FALSE, v |-> 0, err |-> e]

\* Whether v fits a signed / unsigned integer of the given width.  Texts of the
\* model are short, so every value they denote fits 32 and 64 bits.
FitsInt(v, bits) == IF bits >= 32 THEN TRUE ELSE -(2 ^ (bits - 1)) <= v /\ v < 2 ^ (bits - 1)
FitsUint(v, bits) == IF bits >= 32 THEN v >= 0 ELSE 0 <= v /\ v < 2 ^ bits

\* The conversion int8(x), int16(x), ... of a wider integer: the low bits kept.
WrapInt(v, bits) ==
    IF bits >= 32 THEN v
    ELSE ((v + 2 ^ (bits - 1)) % (2 ^ bits)) - 2 ^ (bits - 1)
WrapUint(v, bits) == IF bits >= 32 THEN v ELSE v % (2 ^ bits)

\* strconv.ParseUint(s, base, bits), base 10 or 0.  Base 0 reads a leading "0"
\* as the octal prefix (the prefixes 0x, 0b, 0o need letters outside digits).
ParseUint(s, base, bits) ==
    IF s = <<>> \/ ~AllDigits(s) THEN Fail("syntax")
    ELSE LET octal == base = 0 /\ Len(s) > 1 /\ s[1] = "0"
             body == IF octal THEN Tail(s) ELSE s
             b == IF octal THEN 8 ELSE 10
         IN  IF \E i \in 1..Len(body) : DigitVal(body[i]) >= b THEN Fail("syntax")
             ELSE LET v == DigitsValue(body, b)
                  IN  IF FitsUint(v, bits) THEN Ok(v) ELSE Fail("range")

\* strconv.ParseInt(s, base, bits): an optional sign, then ParseUint's digits.
ParseInt(s, base, bits) ==
    IF s = <<>> THEN Fail("syntax")
    ELSE LET neg == s[1] = "-"
             signed == s[1] = "-" \/ s[1] = "+"
             u == ParseUint(IF signed THEN Tail(s) ELSE s, base, 64)
         IN  IF ~u.ok THEN Fail("syntax")
             ELSE LET v == IF neg THEN -u.v ELSE u.v
                  IN  IF FitsInt(v, bits) THEN Ok(v) ELSE Fail("range")

TrueTexts == { <<"1">>, <<"t">>, <<"T">>, <<"t", "r", "u", "e">>,
               <<"T", "R", "U", "E">>, <<"T", "r", "u", "e">> }
FalseTexts == { <<"0">>, <<"f">>, <<"F">>, <<"f", "a", "l", "s", "e">>,
                <<"F", "A", "L", "S", "E">>, <<"F", "a", "l", "s", "e">> }

\* strconv.ParseBool
ParseBool(s) ==
    IF s \in TrueTexts THEN Ok(TRUE)
    ELSE IF s \in FalseTexts THEN Ok(FALSE)
    ELSE Fail("syntax")

\* strconv.FormatBool
FormatBool(b) == IF b THEN <<"t", "r", "u", "e">> ELSE <<"f", "a", "l", "s", "e">>

\* strings.Split(s, sep) for a one-character separator.
RECURSIVE SplitAcc(_, _, _, _)
SplitAcc(s, sep, cur, acc) ==
    IF s = <<>> THEN Append(acc, cur)
    ELSE IF s[1] = sep THEN SplitAcc(Tail(s), sep, <<>>, Append(acc, cur))
    ELSE SplitAcc(Tail(s), sep, Append(cur, s[1]), acc)
Split(s, sep) == SplitAcc(s, sep, <<>>, <<>>)

\* strings.Join(parts, sep)
RECURSIVE Join(_, _)
Join(parts, sep) ==
    IF parts = <<>> THEN <<>>
    ELSE IF Len(parts) = 1 THEN parts[1]
    ELSE parts[1] \o sep \o Join(Tail(parts), sep)

\* ------------------------------------------------------------ value kinds

\* The scalar kinds of the codec.  int and uint are 64 bits wide on the
\* platforms the module is built for; int32/uint32 behave as int16/uint16 do
\* with longer texts.
ScalarKinds == { "bool", "int8", "int16", "int", "uint8", "uint16", "uint",
                 "float64", "string", "duration", "time", "ip" }
SignedKinds == { "int8", "int16", "int" }
UnsignedKinds == { "uint8", "uint16", "uint" }

\* A field type: a scalar kind, or a sequence (slice) of a scalar kind.
Scalar(k) == [seq |-> FALSE, elem |-> k]
SliceOf(k) == [seq |-> TRUE, elem |-> k]
Types == { Scalar(k) : k \in ScalarKinds } \cup { SliceOf(k) : k \in ScalarKinds }

Bits(k) ==
    CASE k \in {"int8", "uint8"} -> 8
      [] k \in {"int16", "uint16"} -> 16
      [] OTHER -> 64

\* A float64 is num / 10^scale with no trailing zero in the fraction.
RECURSIVE NormFloat(_, _)
NormFloat(num, scale) ==
    IF scale > 0 /\ num % 10 = 0 THEN NormFloat(num \div 10, scale - 1)
    ELSE [num |-> num, scale |-> scale]

\* A time.Time in UTC, of which the model varies the year, the seconds field s
\* (0..59) and the nanoseconds ns; month, day, hour and minute are fixed.  The
\* zero Time is second 0 of year 1.
Instant(year, s, ns) == [year |-> year, s |-> s, ns |-> ns]
ZeroTime == Instant(1, 0, 0)

\* The zero value of a scalar kind.  A duration counts whole seconds, a
\* string is its text, a net.IP its bytes (nil is the empty sequence).
Zero(k) ==
    CASE k = "bool" -> FALSE
      [] k = "float64" -> NormFloat(0, 0)
      [] k = "string" -> <<>>
      [] k = "time" -> ZeroTime
      [] k = "ip" -> <<>>
      [] OTHER -> 0

ZeroOf(t) == IF t.seq THEN <<>> ELSE Zero(t.elem)

\* s without its trailing zeros.
RECURSIVE StripZeros(_)
StripZeros(s) ==
    IF s # <<>> /\ s[Len(s)] = "0" THEN StripZeros(SubSeq(s, 1, Len(s) - 1)) ELSE s

\* strconv.ParseFloat(s, 64) on decimal texts: sign, digits, optional fraction
\* (whose trailing zeros do not change the value).
ParseFloat(s) ==
    LET signed == s # <<>> /\ (s[1] = "-" \/ s[1] = "+")
        neg == s # <<>> /\ s[1] = "-"
        body == IF signed THEN Tail(s) ELSE s
        parts == Split(body, ".")
    IN  IF Len(parts) > 2 THEN Fail("syntax")
        ELSE LET ip == parts[1]
                 fp == IF Len(parts) = 2 THEN parts[2] ELSE <<>>
             IN  IF ~AllDigits(ip) \/ ~AllDigits(fp) \/ Len(ip) + Len(fp) = 0
                 THEN Fail("syntax")
                 ELSE LET f == StripZeros(fp)
                          n == DigitsValue(ip \o f, 10)
                      IN  Ok(NormFloat(IF neg THEN -n ELSE n, Len(f)))

IsUnitChar(c) == ~IsDigit(c) /\ c # "."

\* How many leading characters of s are digits / belong to a unit name.
RECURSIVE DigitSpan(_)
DigitSpan(s) == IF s # <<>> /\ IsDigit(s[1]) THEN 1 + DigitSpan(Tail(s)) ELSE 0
RECURSIVE UnitSpan(_)
UnitSpan(s) == IF s # <<>> /\ IsUnitChar(s[1]) THEN 1 + UnitSpan(Tail(s)) ELSE 0

\* Seconds in a duration unit.  The units ns, us and ms are below the model's
\* one-second resolution and occur in none of its texts.
UnitSeconds(u) ==
    CASE u = <<"s">> -> 1
      [] u = <<"m">> -> 60
      [] u = <<"h">> -> 3600
      [] OTHER -> 0

\* The groups digits[.digits]unit of time.ParseDuration, summed.
RECURSIVE DurationGroups(_, _)
DurationGroups(s, acc) ==
    IF s = <<>> THEN Ok(acc)
    ELSE LET nd == DigitSpan(s)
             r1 == SubSeq(s, nd + 1, Len(s))
             dot == r1 # <<>> /\ r1[1] = "."
             nf == IF dot THEN DigitSpan(Tail(r1)) ELSE 0
             frac == IF dot THEN SubSeq(r1, 2, nf + 1) ELSE <<>>
             r2 == IF dot THEN SubSeq(r1, nf + 2, Len(r1)) ELSE r1
             nu == UnitSpan(r2)
             unit == SubSeq(r2, 1, nu)
             rest == SubSeq(r2, nu + 1, Len(r2))
         IN  IF nd + nf = 0 THEN Fail("duration")
             ELSE IF nu = 0 THEN Fail("duration")
             ELSE IF UnitSeconds(unit) = 0 THEN Fail("duration")
             ELSE DurationGroups(rest,
                      acc + DigitsValue(SubSeq(s, 1, nd), 10) * UnitSeconds(unit)
                          + (DigitsValue(frac, 10) * UnitSeconds(unit)) \div (10 ^ nf))

\* time.ParseDuration, in whole seconds.
ParseDuration(s) ==
    LET signed == s # <<>> /\ (s[1] = "-" \/ s[1] = "+")
        neg == s # <<>> /\ s[1] = "-"
        body == IF signed THEN Tail(s) ELSE s
    IN  IF body = <<"0">> THEN Ok(0)
        ELSE IF body = <<>> THEN Fail("duration")
        ELSE LET r == DurationGroups(body, 0)
             IN  IF ~r.ok THEN r ELSE Ok(IF neg THEN -r.v ELSE r.v)

\* Mutant of DurationString: the seconds are written without the modulo.
DurationStringAllSeconds(d) ==
    LET u == IF d < 0 THEN -d ELSE d
        sign == IF d < 0 THEN <<"-">> ELSE <<>>
        min == IF u >= 60 THEN FormatUint(u \div 60) \o <<"m">> ELSE <<>>
    IN  sign \o min \o FormatUint(u) \o <<"s">>

\* time.Duration.String for whole seconds: 0s, 5s, 1m30s, 1h0m0s.
DurationString(d) ==
    LET u == IF d < 0 THEN -d ELSE d
        sign == IF d < 0 THEN <<"-">> ELSE <<>>
        sec == FormatUint(u % 60) \o <<"s">>
        min == IF u >= 60 THEN FormatUint((u \div 60) % 60) \o <<"m">> ELSE <<>>
        hour == IF u >= 3600 THEN FormatUint(u \div 3600) \o <<"h">> ELSE <<>>
    IN  sign \o hour \o min \o sec

\* n as at least w decimal digits.
RECURSIVE Pad(_, _)
Pad(n, w) == IF w <= 1 THEN FormatUint(n) ELSE
             IF n < 10 ^ (w - 1) THEN <<"0">> \o Pad(n, w - 1) ELSE FormatUint(n)

\* Time.Format(time.RFC3339), written yyyyTssZ: the fixed fields are left out
\* of the text.  The layout has no fractional seconds, so ns is not written.
FormatTime(t) == Pad(t.year, 4) \o <<"T">> \o Pad(t.s, 2) \o <<"Z">>

\* time.Parse(time.RFC3339, s) on the same texts.
ParseTime(s) ==
    IF Len(s) # 8 THEN Fail("time")
    ELSE LET y == SubSeq(s, 1, 4)
             ss == SubSeq(s, 6, 7)
         IN  IF s[5] # "T" \/ s[8] # "Z" \/ ~AllDigits(y) \/ ~AllDigits(ss) THEN Fail("time")
             ELSE IF DigitsValue(ss, 10) > 59 THEN Fail("time")
             ELSE Ok(Instant(DigitsValue(y, 10), DigitsValue(ss, 10), 0))

\* The 16-byte form net.ParseIP returns for an IPv4 address.
V4InV6Prefix == <<0, 0, 0, 0, 0, 0, 0, 0, 0, 0, 255, 255>>

IsV4Part(p) ==
    /\ p # <<>>
    /\ Len(p) <= 3
    /\ AllDigits(p)
    /\ (Len(p) > 1 => p[1] # "0")
    /\ DigitsValue(p, 10) <= 255

\* net.ParseIP on dotted-decimal texts (IPv6 texts need ':'): the nil IP,
\* written <<>>, when the text is no address.
ParseIP(s) ==
    LET parts == Split(s, ".")
    IN  IF Len(parts) = 4 /\ \A i \in 1..4 : IsV4Part(parts[i])
        THEN V4InV6Prefix \o [i \in 1..4 |-> DigitsValue(parts[i], 10)]
        ELSE <<>>

\* net.IP.String for a 4-byte address or a 16-byte IPv4-mapped one.
IPString(ip) ==
    IF Len(ip) = 0 THEN <<"<", "n", "i", "l", ">">>
    ELSE LET b == IF Len(ip) = 16 THEN SubSeq(ip, 13, 16) ELSE ip
         IN  Join([i \in 1..4 |-> FormatUint(b[i])], <<".">>)

Lowers == <<"a", "b", "c", "d", "e", "f", "g", "h", "i", "j", "k", "l", "m",
            "n", "o", "p", "q", "r", "s", "t", "u", "v", "w", "x", "y", "z">>
Uppers == <<"A", "B", "C", "D", "E", "F", "G", "H", "I", "J", "K", "L", "M",
            "N", "O", "P", "Q", "R", "S", "T", "U", "V", "W", "X", "Y", "Z">>

IsLower(c) == \E i \in 1..26 : Lowers[i] = c
IsUpper(c) == \E i \in 1..26 : Uppers[i] = c
LetterIndex(c, abc) == CHOOSE i \in 1..26 : abc[i] = c

\* The byte of an ASCII character ([]byte(s) of a one-character string).
ByteOf(c) ==
    CASE IsDigit(c) -> 48 + DigitVal(c)
      [] IsLower(c) -> 96 + LetterIndex(c, Lowers)
      [] IsUpper(c) -> 64 + LetterIndex(c, Uppers)
      [] c = " " -> 32
      [] c = "+" -> 43
      [] c = "," -> 44
      [] c = "-" -> 45
      [] c = "." -> 46
      [] c = ":" -> 58
      [] c = ";" -> 59
      [] c = "_" -> 95
      [] OTHER -> 63

Bytes(s) == [i \in 1..Len(s) |-> ByteOf(s[i])]

\* --------------------------------------------------------- the value codec

\* What a Set call leaves: the field's value and the error returned ("" is nil).
Ret(v, err) == [v |-> v, err |-> err]

\* Mutant of reflectSetSkipsEmpty: an empty text is ignored for bool too.
reflectSetSkipsEveryEmpty(t, s) == s = <<>>

\* reflectSet's early return: an empty text is ignored unless the field's own
\* kind is bool.
reflectSetSkipsEmpty(t, s) == s = <<>> /\ ~(~t.seq /\ t.elem = "bool")

\* reflectSet on a field of scalar kind k holding cur: the type switch on
\* Duration, Time and IP, then the switch on the reflect.Kind.  Integers are
\* parsed 64 bits wide and stored with SetInt/SetUint, which keep the low bits
\* of the field's width.
reflectSetScalar(k, cur, s) ==
    CASE k = "duration" ->
           LET r == ParseDuration(s) IN IF r.ok THEN Ret(r.v, "") ELSE Ret(cur, "duration")
      [] k = "time" ->
           LET r == ParseTime(s) IN IF r.ok THEN Ret(r.v, "") ELSE Ret(cur, "time")
      [] k = "ip" ->
           LET ip == ParseIP(s) IN IF ip # <<>> THEN Ret(ip, "") ELSE Ret(cur, "")
      [] k \in SignedKinds ->
           LET r == ParseInt(s, 10, 64)
           IN  IF r.ok THEN Ret(WrapInt(r.v, Bits(k)), "") ELSE Ret(cur, "number")
      [] k \in UnsignedKinds ->
           LET r == ParseUint(s, 10, 64)
           IN  IF r.ok THEN Ret(WrapUint(r.v, Bits(k)), "") ELSE Ret(cur, "number")
      [] k = "string" -> Ret(s, "")
      [] k = "float64" ->
           LET r == ParseFloat(s) IN IF r.ok THEN Ret(r.v, "") ELSE Ret(cur, "number")
      [] k = "bool" ->
           IF s = <<>> THEN Ret(TRUE, "")
           ELSE LET r == ParseBool(s) IN IF r.ok THEN Ret(r.v, "") ELSE Ret(cur, "bool")

\* Mutant of reflectSetSlice: the sequence is replaced by the new element.
reflectSetSliceReplaces(k, cur, s) ==
    LET r == reflectSetScalar(k, Zero(k), s)
    IN  IF r.err # "" THEN Ret(cur, r.err) ELSE Ret(<<r.v>>, "")

\* Mutant of reflectSetSlice: the new element is appended before its parse
\* error is looked at.
reflectSetSliceAppendsFirst(k, cur, s) ==
    LET r == reflectSetScalar(k, Zero(k), s)
    IN  Ret(Append(cur, r.v), r.err)

\* reflectSet's slice case: the text is parsed into a new element of the
\* element type, which is appended.  []uint8 is []byte and never gets here.
reflectSetSlice(k, cur, s) ==
    LET r == reflectSetScalar(k, Zero(k), s)
    IN  IF r.err # "" THEN Ret(cur, r.err) ELSE Ret(Append(cur, r.v), "")

\* reflectSet(fv, ft, s) on a settable field of type t holding cur.
reflectSet(t, cur, s) ==
    IF reflectSetSkipsEmpty(t, s) THEN Ret(cur, "")
    ELSE IF ~t.seq THEN reflectSetScalar(t.elem, cur, s)
    ELSE IF t.elem = "uint8" THEN Ret(Bytes(s), "")
    ELSE reflectSetSlice(t.elem, cur, s)

\* (*FieldItem).Set: the same switches without a slice case, so a sequence
\* field other than []byte is left alone.
FieldItemSet(t, cur, s) ==
    IF s = <<>> /\ ~(~t.seq /\ t.elem = "bool") THEN Ret(cur, "")
    ELSE IF ~t.seq THEN reflectSetScalar(t.elem, cur, s)
    ELSE IF t.elem = "uint8" THEN Ret(Bytes(s), "")
    ELSE Ret(cur, "")

\* Fraction digits FormatFloat is asked for.
FloatPrec == 19

\* strconv.FormatFloat(f, 'f', FloatPrec, 64)
FormatFloat(f) ==
    LET u == IF f.num < 0 THEN -f.num ELSE f.num
        sign == IF f.num < 0 THEN <<"-">> ELSE <<>>
        frac == IF f.scale = 0 THEN <<>> ELSE Pad(u % (10 ^ f.scale), f.scale)
    IN  sign \o FormatUint(u \div (10 ^ f.scale)) \o <<".">> \o frac
             \o [i \in 1..(FloatPrec - f.scale) |-> "0"]

\* (*FieldItem).String on a field of type t holding v: "" for the zero value,
\* else the kind's text; a sequence has none.
FieldItemString(t, v) ==
    IF v = ZeroOf(t) THEN <<>>
    ELSE IF t.seq THEN <<>>
    ELSE CASE t.elem = "duration" -> DurationString(v)
           [] t.elem = "time" -> FormatTime(v)
           [] t.elem = "ip" -> IPString(v)
           [] t.elem \in SignedKinds -> FormatInt(v)
           [] t.elem \in UnsignedKinds -> FormatUint(v)
           [] t.elem = "string" -> v
           [] t.elem = "float64" -> FormatFloat(v)
           [] t.elem = "bool" -> FormatBool(v)

\* ------------------------------------------------------ names and tags

ToLowerChar(c) == IF IsUpper(c) THEN Lowers[LetterIndex(c, Uppers)] ELSE c
ToUpperChar(c) == IF IsLower(c) THEN Uppers[LetterIndex(c, Lowers)] ELSE c

\* strings.ToUpper
ToUpper(s) == [i \in 1..Len(s) |-> ToUpperChar(s[i])]

\* unicode.IsSpace on the characters of the model.
IsSpace(c) == c \in {" ", "\t", "\n", "\r"}

\* A separator test that takes '|' for a separator as well.
fSplitWithBar(c) == c = " " \/ c = "," \/ c = ";" \/ c = "|" \/ IsSpace(c)

\* fSplit: the separators of a flag or env tag.
fSplit(c) == c = " " \/ c = "," \/ c = ";" \/ IsSpace(c)

\* strings.FieldsFunc(s, fSplit): the maximal runs of non-separators.
RECURSIVE FieldsAcc(_, _, _)
FieldsAcc(s, cur, acc) ==
    IF s = <<>> THEN (IF cur = <<>> THEN acc ELSE Append(acc, cur))
    ELSE IF fSplit(s[1])
         THEN FieldsAcc(Tail(s), <<>>, IF cur = <<>> THEN acc ELSE Append(acc, cur))
         ELSE FieldsAcc(Tail(s), Append(cur, s[1]), acc)
Fields(s) == FieldsAcc(s, <<>>, <<>>)

\* A conversion that lower-cases and inserts nothing.
lowerWithoutSeparator(s) == [i \in 1..Len(s) |-> ToLowerChar(s[i])]

\* lower: MaxConnections -> max_connections
RECURSIVE lowerFrom(_, _, _)
lowerFrom(s, i, prevUp) ==
    IF i > Len(s) THEN <<>>
    ELSE IF IsUpper(s[i])
         THEN (IF i # 1 /\ ~prevUp THEN <<"_">> ELSE <<>>)
                  \o <<ToLowerChar(s[i])>> \o lowerFrom(s, i + 1, TRUE)
         ELSE <<s[i]>> \o lowerFrom(s, i + 1, FALSE)
lower(s) == lowerFrom(s, 1, FALSE)

\* The loop of f2ns over the tokens of a flag tag: a one-character token is the
\* shorthand if none is set yet, a longer token is the name; the loop ends
\* once both are set.
RECURSIVE f2nsLoop(_, _, _)
f2nsLoop(tokens, name, short) ==
    IF tokens = <<>> \/ (name # <<>> /\ short # <<>>) THEN [name |-> name, short |-> short]
    ELSE LET n == tokens[1]
         IN  IF Len(n) = 1 /\ short = <<>> THEN f2nsLoop(Tail(tokens), name, n)
             ELSE IF Len(n) > 1 THEN f2nsLoop(Tail(tokens), n, short)
             ELSE f2nsLoop(Tail(tokens), name, short)

\* f2ns without the fall back on the field's identifier.
f2nsWithoutDefault(flag, def) == f2nsLoop(Fields(flag), <<>>, <<>>)

\* f2ns(flag, def, lower)
f2ns(flag, def) ==
    LET r == f2nsLoop(Fields(flag), <<>>, <<>>)
    IN  [name |-> IF r.name = <<>> THEN lower(def) ELSE r.name, short |-> r.short]

\* strings.TrimSpace
RECURSIVE TrimLeft(_)
TrimLeft(s) == IF s # <<>> /\ IsSpace(s[1]) THEN TrimLeft(Tail(s)) ELSE s
RECURSIVE TrimRight(_)
TrimRight(s) ==
    IF s # <<>> /\ IsSpace(s[Len(s)]) THEN TrimRight(SubSeq(s, 1, Len(s) - 1)) ELSE s
TrimSpace(s) == TrimRight(TrimLeft(s))

\* strings.ReplaceAll(s, from, to) for a one-character from.
RECURSIVE ReplaceAll(_, _, _)
ReplaceAll(s, from, to) ==
    IF s = <<>> THEN <<>>
    ELSE (IF s[1] = from THEN to ELSE <<s[1]>>) \o ReplaceAll(Tail(s), from, to)

HasSuffix(s, suf) ==
    Len(s) >= Len(suf) /\ SubSeq(s, Len(s) - Len(suf) + 1, Len(s)) = suf
TrimSuffix(s, suf) == IF HasSuffix(s, suf) THEN SubSeq(s, 1, Len(s) - Len(suf)) ELSE s

\* snakecase / Snakecase: MaxConnections -> max-connections
RECURSIVE snakecaseFrom(_, _)
snakecaseFrom(s, i) ==
    IF i > Len(s) THEN <<>>
    ELSE IF IsUpper(s[i])
         THEN (IF /\ i > 1
                  /\ s[i - 1] # "-"
                  /\ (IsLower(s[i - 1]) \/ (i < Len(s) /\ IsLower(s[i + 1])))
               THEN <<"-">> ELSE <<>>)
                  \o <<ToLowerChar(s[i])>> \o snakecaseFrom(s, i + 1)
         ELSE <<s[i]>> \o snakecaseFrom(s, i + 1)
snakecase(s) == snakecaseFrom(s, 1)

\* fieldTag: a tag's value with the surrounding space trimmed.
fieldTag(tag) == TrimSpace(tag)

\* fieldName with the prefix put before every name, "-" included.
fieldNamePrefixesAll(f, prefix) ==
    IF ~f.exported THEN <<"-">>
    ELSE LET tagged == fieldTag(f.flag)
             name == IF tagged = <<>> THEN snakecase(f.ident) ELSE tagged
         IN  ReplaceAll(prefix \o name, " ", <<>>)

\* fieldName(ft, prefix): "-" for a field that is not bound.
fieldName(f, prefix) ==
    IF ~f.exported THEN <<"-">>
    ELSE LET tagged == fieldTag(f.flag)
             name == IF tagged = <<>> THEN snakecase(f.ident) ELSE tagged
             full == IF prefix # <<>> /\ name # <<"-">> THEN prefix \o name ELSE name
         IN  ReplaceAll(full, " ", <<>>)

\* A key derivation that drops every '-' instead of replacing it.
jEnvKeyDropsDash(key, prefix) ==
    ReplaceAll((IF key = <<>> THEN <<>> ELSE prefix) \o key, "-", <<>>)

\* jEnvKey(key, prefix)
jEnvKey(key, prefix) ==
    ReplaceAll((IF key = <<>> THEN <<>> ELSE prefix) \o key, "-", <<"_">>)

\* fieldsSplit: the non-empty pieces between runs of space, ',', ';' and '|'.
RECURSIVE fieldsSplitAcc(_, _, _)
fieldsSplitAcc(s, cur, acc) ==
    IF s = <<>> THEN (IF cur = <<>> THEN acc ELSE Append(acc, cur))
    ELSE IF IsSpace(s[1]) \/ s[1] \in {",", ";", "|"}
         THEN fieldsSplitAcc(Tail(s), <<>>, IF cur = <<>> THEN acc ELSE Append(acc, cur))
         ELSE fieldsSplitAcc(Tail(s), Append(cur, s[1]), acc)
fieldsSplit(s) == fieldsSplitAcc(s, <<>>, <<>>)

\* ----------------------------------------------------------- environment

\* os.Getenv(key): an unset variable reads as "".
Getenv(env, key) == IF key \in DOMAIN env THEN env[key] ELSE <<>>

\* A lookup that keeps the last key whose value is not empty.
RECURSIVE getEnvLast(_, _)
getEnvLast(env, keys) ==
    IF keys = <<>> THEN <<>>
    ELSE LET rest == getEnvLast(env, Tail(keys))
         IN  IF rest # <<>> THEN rest ELSE Getenv(env, keys[1])

\* getEnv(keys): the value of the first key whose value is not empty, else "".
\* env maps a variable's name to its value; an unset variable reads as "".
RECURSIVE getEnv(_, _)
getEnv(env, keys) ==
    IF keys = <<>> THEN <<>>
    ELSE LET s == IF keys[1] \in DOMAIN env THEN env[keys[1]] ELSE <<>>
         IN  IF s # <<>> THEN s ELSE getEnv(env, Tail(keys))

\* GetEnv(keys, def)
RECURSIVE GetEnv(_, _, _)
GetEnv(env, keys, def) ==
    IF keys = <<>> THEN def
    ELSE LET s == IF keys[1] \in DOMAIN env THEN env[keys[1]] ELSE <<>>
         IN  IF s # <<>> THEN s ELSE GetEnv(env, Tail(keys), def)

\* The one element of a singleton set.  An operator whose body is written as
\* Only({e(x) : x \in {arg}}) has its argument evaluated once, as a call by
\* value does.
Only(S) == CHOOSE x \in S : TRUE

\* ------------------------------------------------- pflag's flag values

\* The field types AddToSet's type switch registers; any other type is
\* answered with a "not support" error.
pflagScalars == ScalarKinds \ {"time"}
pflagElems == {"duration", "ip", "string", "int", "uint", "float64", "bool"}
Supported(t) == IF t.seq THEN t.elem \in pflagElems ELSE t.elem \in pflagScalars

\* Set of a pflag scalar value: integers are parsed with base 0 at the width
\* of the type, an IP that does not parse is an error.
pflagParse(k, s) ==
    CASE k \in SignedKinds -> ParseInt(s, 0, Bits(k))
      [] k \in UnsignedKinds -> ParseUint(s, 0, Bits(k))
      [] k = "string" -> Ok(s)
      [] k = "bool" -> ParseBool(s)
      [] k = "float64" -> ParseFloat(s)
      [] k = "duration" -> ParseDuration(s)
      [] k = "ip" -> LET ip == ParseIP(TrimSpace(s))
                     IN  IF ip = <<>> THEN Fail("ip") ELSE Ok(ip)

\* An element of a pflag slice value: strconv.Atoi for []int, base 10 for []uint.
pflagParseElem(k, s) ==
    CASE k = "int" -> ParseInt(s, 10, 64)
      [] k = "uint" -> ParseUint(s, 10, 64)
      [] k = "ip" -> pflagParse(k, TrimSpace(s))
      [] k = "bool" -> ParseBool(TrimSpace(s))
      [] OTHER -> pflagParse(k, s)

\* The comma-separated pieces of a slice flag's text (no quoting in the
\* model's texts); an empty text is no piece for []string.
pflagPieces(k, s) == IF k = "string" /\ s = <<>> THEN <<>> ELSE Split(s, ",")

\* What Value.Set leaves: the value, the slice value's changed mark, the error.
SetRet(v, changed, err) == [v |-> v, changed |-> changed, err |-> err]

\* Value.Set(s) of the pflag value registered for a field of type t.  A slice
\* value replaces the default on its first Set and appends on every later one.
pflagSet(t, cur, changed, text) ==
    Only({ IF ~t.seq
           THEN LET r == pflagParse(t.elem, s)
                IN  IF r.ok THEN SetRet(r.v, changed, "") ELSE SetRet(cur, changed, r.err)
           ELSE LET parts == pflagPieces(t.elem, s)
                    bad == \E i \in 1..Len(parts) : ~pflagParseElem(t.elem, parts[i]).ok
                    out == [i \in 1..Len(parts) |-> pflagParseElem(t.elem, parts[i]).v]
                IN  IF bad THEN SetRet(cur, changed, "syntax")
                    ELSE SetRet(IF ~changed THEN out ELSE cur \o out, TRUE, "")
           : s \in {text} })

\* ------------------------------------------------------- deprecation mark

Marker == <<"*", "*", "D", "E", "P", "R", "E", "C", "A", "T", "E", "D", "*", "*">>

\* The first position at which sub occurs in s, 0 if none.
RECURSIVE IndexFrom(_, _, _)
IndexFrom(s, sub, i) ==
    IF i + Len(sub) - 1 > Len(s) THEN 0
    ELSE IF SubSeq(s, i, i + Len(sub) - 1) = sub THEN i
    ELSE IndexFrom(s, sub, i + 1)

\* A match that leaves the space before the marker in the head.
reDeprecatedKeepsSpace(usage) ==
    LET at == IndexFrom(usage, Marker, 1)
    IN  IF at = 0 THEN [found |-> FALSE, head |-> usage, tail |-> <<>>]
        ELSE [found |-> TRUE, head |-> SubSeq(usage, 1, at - 1),
              tail |-> TrimLeft(SubSeq(usage, at + Len(Marker), Len(usage)))]

\* reDeprecated, \s*\*\*DEPRECATED\*\*\s*(.*)$, on a usage text: whether it
\* matches, the text before the match and the captured tail.
reDeprecated(usage) ==
    LET at == IndexFrom(usage, Marker, 1)
        before == TrimRight(SubSeq(usage, 1, at - 1))
        after == TrimLeft(SubSeq(usage, at + Len(Marker), Len(usage)))
    IN  IF at = 0 THEN [found |-> FALSE, head |-> usage, tail |-> <<>>]
        ELSE [found |-> TRUE, head |-> before, tail |-> after]

\* ------------------------------------------------ struct-driven binding

\* What a struct field declares: its Go name, whether it is exported, its
\* tags (flag, usage, env, short, alias), its type and the value it holds
\* when binding starts.
Field(ident, exported, flag, usage, env, short, alias, type, def) ==
    [ident |-> ident, exported |-> exported, flag |-> flag, usage |-> usage,
     env |-> env, short |-> short, alias |-> alias, type |-> type, def |-> def]

\* A registered flag: its name, shorthand, usage, deprecation note and the
\* index of the field whose value it sets; what no VarP call sets keeps its
\* zero value: not hidden, no shorthand deprecation, no annotations.
Flag(name, short, usage, deprecated, field) ==
    [name |-> name, short |-> short, usage |-> usage,
     deprecated |-> deprecated, field |-> field,
     hidden |-> FALSE, shorthandDeprecated |-> <<>>, annotations |-> <<>>]

\* One call of a flag value's Set: the field, where the text came from
\* ("env" or "arg") and the error returned.
SetCall(field, src, text, err) ==
    [field |-> field, src |-> src, text |-> text, err |-> err]

\* The state a binding run builds up.
Binding(fields) ==
    [flags |-> <<>>,
     vals |-> [i \in 1..Len(fields) |-> fields[i].def],
     changed |-> [i \in 1..Len(fields) |-> FALSE],
     log |-> <<>>, cfgFile |-> 0, loads |-> <<>>, merged |-> FALSE, err |-> ""]

\* pflag's AddFlag panics on a name or a shorthand already in the set.
Redefined(flags, name, short) ==
    \E j \in 1..Len(flags) :
        flags[j].name = name \/ (short # <<>> /\ flags[j].short = short)

\* AddToSet ignoring the item's environment keys.
AddToSetIgnoringEnv(st, env, i, t, name, short, usage, keys) ==
    IF ~Supported(t) THEN [st EXCEPT !.err = "not support"]
    ELSE IF Redefined(st.flags, name, short) THEN [st EXCEPT !.err = "panic"]
    ELSE [st EXCEPT !.flags = Append(@, Flag(name, short, usage, <<>>, i))]

\* AddToSet(fs, val, name, options): registers the flag for the field's type,
\* moves a deprecation mark out of the usage, lists the environment keys in
\* the usage and sets the value from the environment; a value of the
\* environment that does not parse is only warned about.
AddToSet(st, env, i, t, name, short, usage, keys) ==
    IF ~Supported(t) THEN [st EXCEPT !.err = "not support"]
    ELSE IF Redefined(st.flags, name, short) THEN [st EXCEPT !.err = "panic"]
    ELSE Only({
        LET deprecated == IF ~dep.found THEN <<>>
                          ELSE IF dep.tail = <<>>
                               THEN <<"d", "e", "p", "r", "e", "c", "a", "t", "e", "d">>
                               ELSE dep.tail
            shown == IF keys = <<>> THEN dep.head
                     ELSE (IF dep.head # <<>> THEN dep.head \o <<" ">> ELSE <<>>)
                              \o <<"[">> \o Join(keys, <<",", " ">>) \o <<"]">>
            reg == [st EXCEPT !.flags = Append(@, Flag(name, short, shown, deprecated, i))]
        IN  IF keys = <<>> \/ s = <<>> THEN reg
            ELSE Only({ [reg EXCEPT !.vals[i] = r.v, !.changed[i] = r.changed,
                                    !.log = Append(@, SetCall(i, "env", s, r.err))]
                        : r \in {pflagSet(t, st.vals[i], st.changed[i], s)} })
        : dep \in {reDeprecated(usage)}, s \in {getEnv(env, keys)} })

\* StructToSet(fs, pStruct): every exported field that has a flag tag other
\* than "-", or a usage tag, goes to AddToSet; the first error stops the loop.
RECURSIVE StructToSetFrom(_, _, _, _)
StructToSetFrom(st, fields, env, i) ==
    IF i > Len(fields) \/ st.err # "" THEN st
    ELSE LET f == fields[i]
         IN  IF \/ ~f.exported
                \/ f.flag = <<"-">>
                \/ (f.flag = <<>> /\ f.usage = <<>>)
             THEN StructToSetFrom(st, fields, env, i + 1)
             ELSE Only({ StructToSetFrom(added, fields, env, i + 1)
                         : added \in { AddToSet(st, env, i, f.type, ns.name, ns.short,
                                                 f.usage, keys)
                                        : ns \in {f2ns(f.flag, f.ident)},
                                          keys \in {Fields(f.env)} } })
StructToSet(fields, env) == StructToSetFrom(Binding(fields), fields, env, 1)

\* flag.Var panics on a name already defined.
Defined(flags, name) == \E j \in 1..Len(flags) : flags[j].name = name

\* Registration of the canonical name alone.
VarAllNameOnly(st, names, usages, i) ==
    IF Defined(st.flags, names[1]) THEN [st EXCEPT !.err = "panic"]
    ELSE [st EXCEPT !.flags = Append(@, Flag(names[1], <<>>, usages[1], <<>>, i))]

\* The flag.Var calls of Bind for one field: the name, each alias and the
\* shorthand are flags of their own on the same value.
RECURSIVE VarAll(_, _, _, _)
VarAll(st, names, usages, i) ==
    IF names = <<>> \/ st.err # "" THEN st
    ELSE IF Defined(st.flags, names[1]) THEN [st EXCEPT !.err = "panic"]
    ELSE Only({ VarAll(reg, Tail(names), Tail(usages), i)
                : reg \in {[st EXCEPT !.flags = Append(@, Flag(names[1], <<>>, usages[1], <<>>, i))]} })

AliasOf == <<"a", "l", "i", "a", "s", " ", "o", "f", " ">>
ShortOf == <<"s", "h", "o", "r", "t", " ", "o", "f", " ">>
FileSuffix == <<",", "f", "i", "l", "e">>

\* The loop of Bind over the struct's fields: a field named "-" is skipped;
\* unless its env tag is "-", the field is set from its environment key (the
\* tag, or the upper-cased flag name) and an error of that Set ends Bind;
\* then the field's name, aliases and shorthand are registered.
RECURSIVE BindFrom(_, _, _, _, _)
BindFrom(st, fields, opts, env, i) ==
    IF i > Len(fields) \/ st.err # "" THEN st
    ELSE Only({
        LET f == fields[i]
            isFile == HasSuffix(named, FileSuffix) /\ f.type = Scalar("string")
            name == IF isFile THEN TrimSuffix(named, FileSuffix) ELSE named
            EnvKey == IF f.env = <<"-">> THEN <<>>
                      ELSE IF f.env = <<>> THEN jEnvKey(ToUpper(name), opts.EnvPrefix)
                      ELSE jEnvKey(f.env, opts.EnvPrefix)
            v == IF f.env # <<"-">> /\ EnvKey \in DOMAIN env THEN env[EnvKey] ELSE <<>>
            Short == fieldTag(f.short)
            Alias == fieldsSplit(fieldTag(f.alias))
            names == <<name>> \o Alias \o (IF Short # <<>> THEN <<Short>> ELSE <<>>)
            usages == <<fieldTag(f.usage)>>
                          \o [j \in 1..Len(Alias) |-> AliasOf \o name]
                          \o (IF Short # <<>> THEN <<ShortOf \o name>> ELSE <<>>)
            filed == IF isFile THEN [st EXCEPT !.cfgFile = i] ELSE st
        IN  IF named = <<"-">> THEN BindFrom(st, fields, opts, env, i + 1)
            ELSE Only({
                LET set == IF v = <<>> THEN filed
                           ELSE [filed EXCEPT !.vals[i] = r.v,
                                              !.log = Append(@, SetCall(i, "env", v, r.err))]
                IN  IF v # <<>> /\ r.err # "" THEN [set EXCEPT !.err = r.err]
                    ELSE Only({ BindFrom(reg, fields, opts, env, i + 1)
                                : reg \in {VarAll(set, names, usages, i)} })
                : r \in {reflectSet(f.type, st.vals[i], v)} })
        : named \in {fieldName(fields[i], opts.Prefix)} })
BindFields(fields, opts, env) == BindFrom(Binding(fields), fields, opts, env, 1)

\* One occurrence of a flag on the command line: --name=val or --name when
\* long, -n=val or -n when not.
Occ(long, name, hasVal, val) == [long |-> long, name |-> name, hasVal |-> hasVal, val |-> val]
ArgText(o) ==
    (IF o.long THEN <<"-", "-">> ELSE <<"-">>) \o o.name
        \o (IF o.hasVal THEN <<"=">> \o o.val ELSE <<>>)

\* The index of the flag an occurrence names, 0 if none: pflag looks a long
\* occurrence up by name and a short one by shorthand, the standard flag
\* package looks both up by name.
pflagLookup(flags, o) ==
    LET hit == {j \in 1..Len(flags) :
                   IF o.long THEN flags[j].name = o.name ELSE flags[j].short = o.name}
    IN  IF hit = {} THEN 0 ELSE CHOOSE j \in hit : TRUE
flagLookup(flags, o) ==
    LET hit == {j \in 1..Len(flags) : flags[j].name = o.name}
    IN  IF hit = {} THEN 0 ELSE CHOOSE j \in hit : TRUE

IsBool(t) == ~t.seq /\ t.elem = "bool"
TrueText == <<"t", "r", "u", "e">>

\* pflag's FlagSet.Parse(os.Args[1:]) on a set built with ExitOnError: each
\* occurrence sets its flag's value; a flag without "=value" takes "true" if
\* it is a bool, the next argument otherwise; the first error ends the run.
RECURSIVE pflagParseFrom(_, _, _, _)
pflagParseFrom(st, fields, args, n) ==
    IF n > Len(args) \/ st.err # "" THEN st
    ELSE LET o == args[n]
             j == pflagLookup(st.flags, o)
             i == st.flags[j].field
             t == fields[i].type
             takesNext == ~o.hasVal /\ ~IsBool(t)
             text == IF o.hasVal THEN o.val
                     ELSE IF IsBool(t) THEN TrueText
                     ELSE ArgText(args[n + 1])
         IN  IF j = 0 THEN [st EXCEPT !.err = "unknown flag"]
             ELSE IF takesNext /\ n = Len(args) THEN [st EXCEPT !.err = "needs an argument"]
             ELSE Only({ pflagParseFrom(set, fields, args, IF takesNext THEN n + 2 ELSE n + 1)
                         : set \in { [st EXCEPT !.vals[i] = r.v, !.changed[i] = r.changed,
                                                !.log = Append(@, SetCall(i, "arg", text, r.err)),
                                                !.err = IF r.err = "" THEN "" ELSE "invalid argument"]
                                     : r \in {pflagSet(t, st.vals[i], st.changed[i], text)} } })

\* flag.CommandLine.Parse(os.Args[1:]) on the set Bind built with
\* ContinueOnError, each flag's value being a fieldValue.
RECURSIVE flagParseFrom(_, _, _, _)
flagParseFrom(st, fields, args, n) ==
    IF n > Len(args) \/ st.err # "" THEN st
    ELSE LET o == args[n]
             j == flagLookup(st.flags, o)
             i == st.flags[j].field
             t == fields[i].type
             takesNext == ~o.hasVal /\ ~IsBool(t)
             text == IF o.hasVal THEN o.val
                     ELSE IF IsBool(t) THEN TrueText
                     ELSE ArgText(args[n + 1])
         IN  IF j = 0 THEN [st EXCEPT !.err = "not defined"]
             ELSE IF takesNext /\ n = Len(args) THEN [st EXCEPT !.err = "needs an argument"]
             ELSE Only({ flagParseFrom(set, fields, args, IF takesNext THEN n + 2 ELSE n + 1)
                         : set \in { [st EXCEPT !.vals[i] = r.v,
                                                !.log = Append(@, SetCall(i, "arg", text, r.err)),
                                                !.err = IF r.err = "" THEN "" ELSE "invalid value"]
                                     : r \in {reflectSet(t, st.vals[i], text)} } })

\* ------------------------------------------------- single variables

\* Item: what the ItemOptions of one AddToSet call build up.  Annotations is
\* the list of the (key, value) pairs appended.
Item(name) ==
    [Name |-> name, Shorthand |-> <<>>, Usage |-> <<>>, Deprecated |-> <<>>,
     Hidden |-> FALSE, ShorthandDeprecated |-> <<>>, Annotations |-> <<>>, Env |-> <<>>]

\* The ItemOptions: Shorthand(s, deprecated...), Usage(s), Deprecated(s),
\* Hidden(), Env(s...), EnvSet(s...), Annotation(k, v).
Shorthand(c, deprecated) == [op |-> "Shorthand", s |-> c, more |-> deprecated]
Usage(u) == [op |-> "Usage", s |-> u, more |-> <<>>]
Deprecated(d) == [op |-> "Deprecated", s |-> d, more |-> <<>>]
Hidden == [op |-> "Hidden", s |-> <<>>, more |-> <<>>]
Env(keys) == [op |-> "Env", s |-> <<>>, more |-> keys]
EnvSet(keys) == [op |-> "EnvSet", s |-> <<>>, more |-> keys]
Annotation(k, v) == [op |-> "Annotation", s |-> k, more |-> <<v>>]

apply(o, it) ==
    CASE o.op = "Shorthand" ->
            [it EXCEPT !.Shorthand = o.s,
                       !.ShorthandDeprecated = IF Len(o.more) > 0 THEN o.more[1] ELSE @]
      [] o.op = "Usage" -> [it EXCEPT !.Usage = o.s]
      [] o.op = "Deprecated" -> [it EXCEPT !.Deprecated = o.s]
      [] o.op = "Hidden" -> [it EXCEPT !.Hidden = TRUE]
      [] o.op = "Env" -> [it EXCEPT !.Env = @ \o o.more]
      [] o.op = "EnvSet" -> [it EXCEPT !.Env = o.more]
      [] o.op = "Annotation" -> [it EXCEPT !.Annotations = Append(@, <<o.s, o.more[1]>>)]

\* for _, apply := range itemOptions { apply(&item) }
RECURSIVE applyAll(_, _)
applyAll(opts, it) ==
    IF opts = <<>> THEN it ELSE applyAll(Tail(opts), apply(opts[1], it))

\* AddToSet(fs, val, name, itemOptions...) as Set.Var calls it: of the item
\* the options build, the name, the shorthand, the usage and the environment
\* keys go into the flag.
AddItemToSet(st, env, i, t, name, opts) ==
    Only({ AddToSet(st, env, i, t, it.Name, it.Shorthand, it.Usage, it.Env)
           : it \in {applyAll(opts, Item(name))} })

\* The regular expression of ParseFrom, \s*\*\*(.+)\*\*\s*, on a usage text:
\* whether it matches, the text captured and the usage without the match.
StarsAt(u, k) == k >= 1 /\ k + 1 <= Len(u) /\ u[k] = "*" /\ u[k + 1] = "*"
reStarred(u) ==
    LET opens == { a \in 1..Len(u) : StarsAt(u, a) /\ \E b \in (a + 3)..Len(u) : StarsAt(u, b) }
    IN  IF opens = {} THEN [found |-> FALSE, usage |-> u, captured |-> <<>>]
        ELSE LET a == CHOOSE x \in opens : \A y \in opens : x <= y
                 b == CHOOSE x \in (a + 3)..Len(u) :
                          StarsAt(u, x) /\ \A y \in (a + 3)..Len(u) : StarsAt(u, y) => y <= x
             IN  [found |-> TRUE,
                  usage |-> TrimRight(SubSeq(u, 1, a - 1)) \o TrimLeft(SubSeq(u, b + 2, Len(u))),
                  captured |-> SubSeq(u, a + 2, b - 1)]

\* The FlagSet of NewSet(): the pflag set and the envKeys map, which NewSet
\* leaves nil.
NilMap == "nil"
Keyed(keysOf, name) == IF keysOf = NilMap \/ name \notin DOMAIN keysOf THEN <<>> ELSE keysOf[name]

\* (*FlagSet).Var(v, name, short, usage, env...): the keys are listed in the
\* usage, the flag is registered for the variable's type (a panic for any
\* other type), and the keys are stored in envKeys under the name: a panic
\* when the map is nil.
FlagSetVar(st, keysOf, i, t, name, short, usage, keys) ==
    LET shown == IF keys = <<>> THEN usage
                 ELSE (IF usage # <<>> THEN usage \o <<" ">> ELSE <<>>)
                          \o <<"[">> \o Join(keys, <<",", " ">>) \o <<"]">>
        reg == [st EXCEPT !.flags = Append(@, Flag(name, short, shown, <<>>, i))]
    IN  IF ~Supported(t) \/ Redefined(st.flags, name, short)
        THEN [set |-> [st EXCEPT !.err = "panic"], envKeys |-> keysOf]
        ELSE IF keys = <<>> THEN [set |-> reg, envKeys |-> keysOf]
        ELSE IF keysOf = NilMap THEN [set |-> [reg EXCEPT !.err = "panic"], envKeys |-> keysOf]
        ELSE [set |-> reg,
              envKeys |-> [n \in DOMAIN keysOf \cup {name} |->
                              IF n = name THEN keys ELSE keysOf[n]]]

\* The VisitAll of ParseFrom from flag j on: a usage with **text** loses it
\* to Deprecated; a flag with keys in envKeys has them listed in the usage and
\* its value set from the first key that has a value, an error of that Set
\* being a warning only.
RECURSIVE VisitAllFrom(_, _, _, _, _)
VisitAllFrom(st, keysOf, fields, env, j) ==
    IF j > Len(st.flags) THEN st
    ELSE Only({
        LET i == st.flags[j].field
            keys == Keyed(keysOf, st.flags[j].name)
            text == GetEnv(env, keys, <<>>)
            marked == [st EXCEPT !.flags[j].usage = IF keys = <<>> THEN m.usage
                                                     ELSE m.usage \o <<"[">>
                                                          \o Join(keys, <<",", " ">>) \o <<"]">>,
                                 !.flags[j].deprecated = IF m.found THEN m.captured ELSE @]
        IN  IF keys = <<>> \/ text = <<>> THEN VisitAllFrom(marked, keysOf, fields, env, j + 1)
            ELSE Only({ VisitAllFrom([marked EXCEPT !.vals[i] = r.v, !.changed[i] = r.changed,
                                                     !.log = Append(@, SetCall(i, "env", text, r.err))],
                                     keysOf, fields, env, j + 1)
                        : r \in {pflagSet(fields[i].type, st.vals[i], st.changed[i], text)} })
        : m \in {reStarred(st.flags[j].usage)} })

\* ------------------------------------------------ the codec as a machine

\* Texts handed to Set: empty, numbers in and out of the narrow widths,
\* malformed text, and one valid text of every other kind.
Inputs ==
    { <<>>, <<"0">>, <<"1">>, <<"2">>, <<"-", "1">>,
      <<"1", "2", "7">>, <<"1", "2", "8">>, <<"3", "0", "0">>,
      <<"7", "0", "0", "0", "0">>,
      <<"x">>, <<"t", "r", "u", "e">>, <<"f", "a", "l", "s", "e">>,
      <<"5", "s">>, <<"1", "m", "3", "0", "s">>,
      <<"1", ".", "5">>, <<"1", ".", "2", ".", "3", ".", "4">>,
      <<"2", "0", "0", "6", "T", "0", "5", "Z">> }

\* Values a field of scalar kind k may hold when it is bound.
SampleValues(k) ==
    CASE k = "bool" -> {FALSE, TRUE}
      [] k = "int8" -> {-128, -1, 0, 1, 127}
      [] k = "int16" -> {-1, 0, 300}
      [] k = "int" -> {-1, 0, 70000}
      [] k = "uint8" -> {0, 1, 255}
      [] k = "uint16" -> {0, 300}
      [] k = "uint" -> {0, 70000}
      [] k = "float64" -> {NormFloat(0, 0), NormFloat(15, 1)}
      [] k = "string" -> {<<>>, <<"x">>, <<"1">>}
      [] k = "duration" -> {-90, 0, 5, 90, 3600}
      [] k = "time" -> {ZeroTime, Instant(2006, 5, 0), Instant(2006, 5, 7)}
      [] k = "ip" -> {<<>>, <<1, 2, 3, 4>>, V4InV6Prefix \o <<1, 2, 3, 4>>}

Defaults(t) ==
    IF t.seq THEN {<<>>} \cup { <<v>> : v \in SampleValues(t.elem) }
    ELSE SampleValues(t.elem)

\* Field declarations the binders are run on.
nPort == <<"p", "o", "r", "t">>
nNums == <<"n", "u", "m", "s">>
nDebug == <<"d", "e", "b", "u", "g">>
nSecret == <<"s", "e", "c", "r", "e", "t">>
kPORT == <<"P", "O", "R", "T">>
kALT == <<"A", "L", "T">>
kNUMS == <<"N", "U", "M", "S">>
kDash == <<"-">>

\* Port int `flag:"port" short:"p" usage:"port" env:"PORT"`
fPort == Field(<<"P", "o", "r", "t">>, TRUE, nPort, nPort, kPORT, <<"p">>, <<>>, Scalar("int"), 80)
\* Port int `flag:"port p" usage:"port" env:"ALT PORT"`
fPortKeys == Field(<<"P", "o", "r", "t">>, TRUE, nPort \o <<" ", "p">>, nPort,
                   kALT \o <<" ">> \o kPORT, <<>>, <<>>, Scalar("int"), 80)
\* Port int `flag:"port" usage:"port" env:"-"`
fNoEnv == Field(<<"P", "o", "r", "t">>, TRUE, nPort, nPort, kDash, <<>>, <<>>, Scalar("int"), 80)
\* Nums []int `flag:"nums" env:"NUMS"`, holding [7]
fNums == Field(<<"N", "u", "m", "s">>, TRUE, nNums, <<>>, kNUMS, <<>>, <<>>, SliceOf("int"), <<7>>)
\* Secret string `flag:"-" short:"s" alias:"sec" usage:"secret" env:"PORT"`
fSecret == Field(<<"S", "e", "c", "r", "e", "t">>, TRUE, <<"-">>, nSecret, kPORT,
                 <<"s">>, <<"s", "e", "c">>, Scalar("string"), <<"s">>)
\* Debug bool `usage:"debug"`
fDebug == Field(<<"D", "e", "b", "u", "g">>, TRUE, <<>>, nDebug, <<>>, <<>>, <<>>, Scalar("bool"), FALSE)
\* port int `flag:"port" usage:"port" env:"PORT"`, not exported
fHidden == Field(nPort, FALSE, nPort, nPort, kPORT, <<>>, <<>>, Scalar("int"), 80)

\* Old int `flag:"old" usage:"old **DEPRECATED** use new" env:"PORT"`
nOld == <<"o", "l", "d">>
fOld == Field(<<"O", "l", "d">>, TRUE, nOld,
              nOld \o <<" ">> \o Marker \o <<" ", "u", "s", "e", " ", "n", "e", "w">>,
              kPORT, <<>>, <<>>, Scalar("int"), 80)
\* Gone bool `flag:"gone" usage:"**DEPRECATED** "`
fGone == Field(<<"G", "o", "n", "e">>, TRUE, <<"g", "o", "n", "e">>, Marker \o <<" ">>,
               <<>>, <<>>, <<>>, Scalar("bool"), FALSE)

\* Port int `flag:"port" short:"p" alias:"listen,l" usage:"port" env:"PORT"`
nListen == <<"l", "i", "s", "t", "e", "n">>
fAlias == Field(<<"P", "o", "r", "t">>, TRUE, nPort, nPort, kPORT, <<"p">>,
                nListen \o <<",", "l">>, Scalar("int"), 80)

Structs ==
    { <<fPort>>, <<fPortKeys>>, <<fNoEnv>>, <<fNums>>, <<fSecret, fPort>>,
      <<fDebug, fNums>>, <<fHidden, fNoEnv>>, <<fOld, fGone>>, <<fAlias, fNums>> }

\* The environments: every variable is unset ("") or holds one of a few texts.
EnvKeys == {kPORT, kALT, kNUMS, kDash}
EnvTexts(k) ==
    CASE k = kPORT -> {<<>>, <<"9">>, <<"x">>}
      [] k = kALT -> {<<>>, <<"x">>}
      [] k = kNUMS -> {<<>>, <<"5">>}
      [] k = kDash -> {<<>>, <<"4">>}
Environs == {e \in [EnvKeys -> UNION {EnvTexts(k) : k \in EnvKeys}] :
                \A k \in EnvKeys : e[k] \in EnvTexts(k)}
NoEnviron == [k \in EnvKeys |-> <<>>]

Options(Prefix, EnvPrefix) == [Prefix |-> Prefix, EnvPrefix |-> EnvPrefix]
OptionsPool == {Options(<<>>, <<>>), Options(<<"a", "p", "p", "-">>, <<>>)}

\* MaxConn int, without tags, holding 10, and the environments it is bound in.
fMaxConn == Field(<<"M", "a", "x", "C", "o", "n", "n">>, TRUE, <<>>, <<>>, <<>>, <<>>, <<>>,
                  Scalar("int"), 10)
kMAX_CONN == <<"M", "A", "X", "_", "C", "O", "N", "N">>
kMAXCONN == <<"M", "A", "X", "C", "O", "N", "N">>
kAPP_ == <<"A", "P", "P", "_">>
ConnStructs == { <<fMaxConn>> }
ConnKeys == {kMAX_CONN, kMAXCONN, kAPP_ \o kMAX_CONN}
ConnTexts(k) ==
    CASE k = kMAX_CONN -> {<<>>, <<"3">>}
      [] k = kMAXCONN -> {<<>>, <<"5">>}
      [] k = kAPP_ \o kMAX_CONN -> {<<>>, <<"4">>, <<"x">>}
ConnEnvirons == {e \in [ConnKeys -> UNION {ConnTexts(k) : k \in ConnKeys}] :
                    \A k \in ConnKeys : e[k] \in ConnTexts(k)}
ConnOptions == OptionsPool \cup {Options(<<>>, kAPP_)}
ConnOccs == { Occ(TRUE, <<"m", "a", "x", "-", "c", "o", "n", "n">>, TRUE, <<"7">>) }
ConnArgLists == UNION {[1..n -> ConnOccs] : n \in 0..MaxArgs}

\* The command lines: up to MaxArgs occurrences.
Occs ==
    { Occ(TRUE, nPort, TRUE, <<"8">>), Occ(TRUE, nPort, TRUE, <<"x">>),
      Occ(FALSE, <<"p">>, TRUE, <<"8">>), Occ(TRUE, nNums, TRUE, <<"1">>),
      Occ(TRUE, nDebug, FALSE, <<>>), Occ(TRUE, nSecret, TRUE, <<"z">>),
      Occ(TRUE, nListen, TRUE, <<"6">>) }
ArgLists == UNION {[1..n -> Occs] : n \in 0..MaxArgs}


\* When time.Time `flag:"when" usage:"when"`: a type no pflag value exists for.
nWhen == <<"w", "h", "e", "n">>
fWhen == Field(<<"W", "h", "e", "n">>, TRUE, nWhen, nWhen, <<>>, <<>>, <<>>, Scalar("time"), ZeroTime)
WhenStructs == { <<fWhen, fPort>>, <<fPort, fWhen>>, <<fWhen>> }
WhenEnvirons == { NoEnviron, [NoEnviron EXCEPT ![kPORT] = <<"9">>] }
WhenArgLists ==
    { <<>>, <<Occ(TRUE, nPort, TRUE, <<"8">>)>>, <<Occ(TRUE, nPort, TRUE, <<"x">>)>>,
      <<Occ(TRUE, nWhen, TRUE, <<"x">>)>> }

\* Config string `flag:"config,file" usage:"config"`, empty or holding d.json
nConfig == <<"c", "o", "n", "f", "i", "g">>
kCONFIG == <<"C", "O", "N", "F", "I", "G">>
pathD == <<"d", ".", "j", "s", "o", "n">>
pathE == <<"e", ".", "y", "m", "l">>
pathA == <<"a", ".", "j", "s", "o", "n">>
fConfig == Field(<<"C", "o", "n", "f", "i", "g">>, TRUE, nConfig \o FileSuffix, nConfig,
                 <<>>, <<>>, <<>>, Scalar("string"), <<>>)
fConfigSet == [fConfig EXCEPT !.def = pathD]
FileStructs == { <<fConfig, fPort>>, <<fConfigSet, fPort>>, <<fPort, fConfig>> }
FileEnvirons ==
    { [k \in {kCONFIG, kPORT} |-> IF k = kCONFIG THEN c ELSE q]
        : c \in {<<>>, pathE}, q \in {<<>>, <<"9">>, <<"x">>} }
FileArgLists ==
    { <<>>, <<Occ(TRUE, nConfig, TRUE, pathA)>>, <<Occ(TRUE, nConfig, TRUE, <<>>)>>,
      <<Occ(TRUE, nPort, TRUE, <<"x">>)>>,
      <<Occ(TRUE, nConfig, TRUE, pathA), Occ(TRUE, nPort, TRUE, <<"x">>)>>,
      <<Occ(TRUE, nConfig, TRUE, pathA), Occ(TRUE, nPort, TRUE, <<"8">>)>> }
FileStats(fields) == IF fields \in FileStructs THEN {"missing", "good", "bad"} ELSE {"missing"}

\* The options, environments and command lines each struct is tried with.
OptionsFor(api, fields) ==
    IF api # "flag" THEN {Options(<<>>, <<>>)}
    ELSE IF fields \in ConnStructs THEN ConnOptions ELSE OptionsPool
EnvironsFor(fields) ==
    IF fields \in ConnStructs THEN ConnEnvirons
    ELSE IF fields \in WhenStructs THEN WhenEnvirons
    ELSE IF fields \in FileStructs THEN FileEnvirons ELSE Environs
ArgListsFor(fields) ==
    IF fields \in ConnStructs THEN ConnArgLists
    ELSE IF fields \in WhenStructs THEN WhenArgLists
    ELSE IF fields \in FileStructs THEN FileArgLists ELSE ArgLists

\* Key lists handed to getEnv and GetEnv.
KeyLists == UNION {[1..n -> {kPORT, kALT, kNUMS}] : n \in 0..MaxKeys}

VARIABLES
    cImpl,   \* which Value implementation backs the field: fieldValue or FieldItem
    cType,   \* the field's type
    cVal,    \* the field's value
    cPrev,   \* the field's value before the last call (the value formatted, after RoundTrip)
    cIn,     \* the text of the last Set call
    cErr,    \* the error the last Set call returned, "" for nil
    cOp,     \* the last call: new, Set or RoundTrip
    environ, \* the process environment
    osArgs,  \* os.Args[1:]
    eKeys,   \* the keys of the last environment lookup
    eDef,    \* the default handed to GetEnv
    eGot,    \* what getEnv(keys) returned
    eGotDef, \* what GetEnv(keys, def) returned
    eOp,     \* new, or looked once the lookup has run
    bApi,    \* the binder in use: "pflag" (Set.Struct, Set.Parse) or "flag" (Bind)
    bStruct, \* the fields of the struct being bound
    bOpts,   \* the Options handed to Bind
    bound,   \* the binding: registered flags, field values, Set calls, error
    bErrs,   \* the errors the Set has collected
    pArgs,   \* the args handed to the last ParseArgs
    pc,      \* new, bound, parsed, done, exit (os.Exit), failed (error returned), panic
    nFlag,   \* the flag tag handed to f2ns
    nDef,    \* the identifier handed to f2ns and to lower
    nName,   \* the name f2ns returned
    nShort,  \* the shorthand f2ns returned
    nLower,  \* what lower(nDef) returned
    nAgain,  \* what lower returned on its own result
    nOp,     \* new, f2ns, lower, or again once lower has run on its result
    cfStat,  \* the file system's answer for the file read: missing, good or bad
    cfIn,    \* the text handed to configFileValue.Set
    cfPath,  \* the value's path field
    cfType,  \* the decoder handed to readBytes, "" for none
    cfFile,  \* the file name handed to readBytes
    cfRead,  \* whether the decoder ran on the file's bytes
    cfErr,   \* the error Set returned, "" for nil
    cfCt,    \* the content type getCotentType returned
    cfCtPath, \* the path getCotentType returned
    cfOp,    \* new, or set once Set has run
    vOpts,   \* the ItemOptions handed to Set.Var
    vKeys,   \* the environment keys handed to FlagSet.Var
    envKeys  \* the envKeys map of the FlagSet: nil, or the keys recorded by name

codecVars == <<cImpl, cType, cVal, cPrev, cIn, cErr, cOp>>
envVars == <<eKeys, eDef, eGot, eGotDef, eOp>>
binderVars == <<bApi, bStruct, bOpts, bound, bErrs, pArgs, pc>>

nameVars == <<nFlag, nDef, nName, nShort, nLower, nAgain, nOp>>
fileVars == <<cfStat, cfIn, cfPath, cfType, cfFile, cfRead, cfErr, cfCt, cfCtPath, cfOp>>

varVars == <<vOpts, vKeys, envKeys>>

vars == <<codecVars, environ, osArgs, envVars, binderVars, nameVars, fileVars, varVars>>

\* The parts of the state a specification does not exercise.
CodecIdle ==
    /\ cImpl = "fieldValue" /\ cType = Scalar("string") /\ cVal = <<>>
    /\ cPrev = <<>> /\ cIn = <<>> /\ cErr = "" /\ cOp = "idle"
LookupIdle ==
    /\ eKeys = <<>> /\ eDef = <<>> /\ eGot = <<>> /\ eGotDef = <<>> /\ eOp = "idle"
BinderIdle ==
    /\ bApi = "none" /\ bStruct = <<>> /\ bOpts = Options(<<>>, <<>>)
    /\ bound = Binding(<<>>) /\ bErrs = <<>> /\ pArgs = <<>> /\ pc = "idle"
NamesIdle ==
    /\ nFlag = <<>> /\ nDef = <<>> /\ nName = <<>> /\ nShort = <<>>
    /\ nLower = <<>> /\ nAgain = <<>> /\ nOp = "idle"
FileIdle ==
    /\ cfStat = "missing" /\ cfIn = <<>> /\ cfPath = <<>> /\ cfType = ""
    /\ cfFile = <<>> /\ cfRead = FALSE /\ cfErr = "" /\ cfOp = "idle"
    /\ cfCt = <<>> /\ cfCtPath = <<>>
VarIdle == vOpts = <<>> /\ vKeys = <<>> /\ envKeys = NilMap

InitCodec ==
    /\ cImpl \in {"fieldValue", "FieldItem"}
    /\ cType \in Types
    /\ cVal \in Defaults(cType)
    /\ cPrev = cVal
    /\ cIn = <<>>
    /\ cErr = ""
    /\ cOp = "new"
    /\ environ = NoEnviron /\ osArgs = <<>>
    /\ LookupIdle /\ BinderIdle /\ NamesIdle /\ FileIdle /\ VarIdle

\* (*fieldValue).Set(s) / (*FieldItem).Set(s)
ValueSet(s) ==
    LET r == IF cImpl = "fieldValue" THEN reflectSet(cType, cVal, s)
             ELSE FieldItemSet(cType, cVal, s)
    IN  /\ cOp # "RoundTrip"
        /\ IF cType.seq /\ cType.elem # "uint8" THEN Len(cVal) < MaxSeq ELSE TRUE
        /\ cVal' = r.v
        /\ cErr' = r.err
        /\ cPrev' = cVal
        /\ cIn' = s
        /\ cOp' = "Set"
        /\ UNCHANGED <<varVars, nameVars, fileVars, cImpl, cType, environ, osArgs, envVars, binderVars>>

\* Set(String()) of a FieldItem's value on a zero-initialised field of its type.
RoundTrip ==
    LET text == FieldItemString(cType, cVal)
        r == FieldItemSet(cType, ZeroOf(cType), text)
    IN  /\ cOp = "new"
        /\ cImpl = "FieldItem"
        /\ ~cType.seq
        /\ cVal' = r.v
        /\ cErr' = r.err
        /\ cPrev' = cVal
        /\ cIn' = text
        /\ cOp' = "RoundTrip"
        /\ UNCHANGED <<varVars, nameVars, fileVars, cImpl, cType, environ, osArgs, envVars, binderVars>>

NextCodec ==
    \/ \E s \in Inputs : ValueSet(s)
    \/ RoundTrip

SpecCodec == InitCodec /\ [][NextCodec]_vars

\* ------------------------------------------- environment lookup as a machine

InitEnv ==
    /\ environ \in Environs
    /\ eKeys \in KeyLists
    /\ eDef \in {<<>>, <<"d">>}
    /\ eGot = <<>> /\ eGotDef = <<>> /\ eOp = "new"
    /\ osArgs = <<>>
    /\ CodecIdle /\ BinderIdle /\ NamesIdle /\ FileIdle /\ VarIdle

\* getEnv(keys) and GetEnv(keys, def) on the process environment
Lookup ==
    /\ eOp = "new"
    /\ eGot' = getEnv(environ, eKeys)
    /\ eGotDef' = GetEnv(environ, eKeys, eDef)
    /\ eOp' = "looked"
    /\ UNCHANGED <<varVars, nameVars, fileVars, codecVars, environ, osArgs, eKeys, eDef, binderVars>>

NextEnv == Lookup

SpecEnv == InitEnv /\ [][NextEnv]_vars

\* ------------------------------------------- names and tags as a machine

\* The flag tags: texts of up to MaxTag characters over letters, '|' and the
\* separators; the identifiers: texts of up to MaxIdent characters.
MaxTag == 4
MaxIdent == 4
TagChars == {"a", "b", "|", " ", ",", ";", "\t"}
IdentChars == {"M", "C", "a", "x", "_"}
Tags == UNION {[1..n -> TagChars] : n \in 0..MaxTag}
Idents == UNION {[1..n -> IdentChars] : n \in 0..MaxIdent}
TagDefs == {<<>>, <<"M", "a", "C">>}
\* Tags with two names: "ab ba", and the same with a shorthand before, between
\* and after them.
LongTags ==
    { <<"a", "b", " ", "b", "a">>, <<"a", " ", "a", "b", " ", "b", "a">>,
      <<"a", "b", " ", "a", " ", "b", "a">>, <<"a", "b", " ", "b", "a", " ", "a">> }

InitNames ==
    /\ \/ nFlag \in Tags \cup LongTags /\ nDef \in TagDefs
       \/ nFlag = <<>> /\ nDef \in Idents
    /\ nName = <<>> /\ nShort = <<>> /\ nLower = <<>> /\ nAgain = <<>>
    /\ nOp = "new"
    /\ environ = NoEnviron /\ osArgs = <<>>
    /\ CodecIdle /\ LookupIdle /\ BinderIdle /\ FileIdle /\ VarIdle

\* name, short := f2ns(flag, sf.Name, lower)
TagParse ==
    /\ nOp = "new"
    /\ \E r \in {f2ns(nFlag, nDef)} : nName' = r.name /\ nShort' = r.short
    /\ nOp' = "f2ns"
    /\ UNCHANGED <<varVars, nFlag, nDef, nLower, nAgain, fileVars, codecVars, environ, osArgs,
                   envVars, binderVars>>

\* lower(sf.Name)
NameLower ==
    /\ nOp = "new"
    /\ nLower' = lower(nDef)
    /\ nOp' = "lower"
    /\ UNCHANGED <<varVars, nFlag, nDef, nName, nShort, nAgain, fileVars, codecVars, environ,
                   osArgs, envVars, binderVars>>

\* lower on a name lower has returned
LowerAgain ==
    /\ nOp = "lower"
    /\ nAgain' = lower(nLower)
    /\ nOp' = "again"
    /\ UNCHANGED <<varVars, nFlag, nDef, nName, nShort, nLower, fileVars, codecVars, environ,
                   osArgs, envVars, binderVars>>

NextNames == TagParse \/ NameLower \/ LowerAgain

SpecNames == InitNames /\ [][NextNames]_vars


\* ------------------------------------------- the config file as a machine

\* strings.Cut(s, ":"): the text before the first ':', the text after it, and
\* whether there is one; without one, the whole text and "".
Cut(s) ==
    IF \E i \in 1..Len(s) : s[i] = ":"
    THEN LET i == CHOOSE k \in 1..Len(s) : s[k] = ":" /\ \A j \in 1..(k - 1) : s[j] # ":"
         IN  [before |-> SubSeq(s, 1, i - 1), after |-> SubSeq(s, i + 1, Len(s)), found |-> TRUE]
    ELSE [before |-> s, after |-> <<>>, found |-> FALSE]

\* filepath.Ext(path): the suffix from the last '.' of the last element of
\* the path on, "" when that element has no '.'.
Ext(path) ==
    LET dots == { i \in 1..Len(path) :
                    path[i] = "." /\ \A j \in i..Len(path) : path[j] # "/" }
    IN  IF dots = {} THEN <<>>
        ELSE SubSeq(path, CHOOSE i \in dots : \A j \in dots : j <= i, Len(path))

\* strings.TrimPrefix(s, ".")
TrimPrefix(s) == IF s # <<>> /\ s[1] = "." THEN Tail(s) ELSE s

tJson == <<"j", "s", "o", "n">>
tYaml == <<"y", "a", "m", "l">>
tToml == <<"t", "o", "m", "l">>
tIni == <<"i", "n", "i">>

\* getCotentType(s): with a ':' in s, the text before it and the text after
\* it, whatever the text before it is; without one, s and its extension,
\* jsonc, yml and tml standing for json, yaml and toml.
getCotentType(s) ==
    IF s = <<>> THEN [ct |-> <<>>, path |-> <<>>]
    ELSE LET c == Cut(s)
         IN  IF c.found THEN [ct |-> c.before, path |-> c.after]
             ELSE LET ext == TrimPrefix(Ext(s))
                  IN  [ct |-> CASE ext = tJson \o <<"c">> -> tJson
                                [] ext = <<"y", "m", "l">> -> tYaml
                                [] ext = <<"t", "m", "l">> -> tToml
                                [] OTHER -> ext,
                       path |-> s]

\* readBytes(filename, read): nothing is read for the name ""; a missing file
\* is an error that is not the decoder's; the decoder runs on the bytes read
\* and fails on a bad file.
readBytes(filename, stat) ==
    IF filename = <<>> THEN [read |-> FALSE, err |-> ""]
    ELSE IF stat = "missing" THEN [read |-> FALSE, err |-> "not exist"]
    ELSE [read |-> TRUE, err |-> IF stat = "bad" THEN "decode" ELSE ""]

\* (*configFileValue).Set(s): the decoder handed to readBytes, the file, whether
\* the decoder ran and the error returned; a missing file is no error.
configFileValueSet(s, stat) ==
    IF s = <<>> THEN [type |-> "", file |-> <<>>, read |-> FALSE, err |-> ""]
    ELSE LET c == getCotentType(s)
             r == readBytes(c.path, stat)
         IN  IF c.ct \in {tJson, tYaml, tToml, tIni}
             THEN [type |-> CASE c.ct = tJson -> "json" [] c.ct = tYaml -> "yaml"
                              [] c.ct = tToml -> "toml" [] c.ct = tIni -> "ini",
                   file |-> c.path, read |-> r.read,
                   err |-> IF r.err = "not exist" THEN "" ELSE r.err]
             ELSE [type |-> "", file |-> <<>>, read |-> FALSE, err |-> "unsupported config file"]

\* strings.ToLower
ToLower(s) == [i \in 1..Len(s) |-> ToLowerChar(s[i])]

\* BindFile(fn, value): the file is read first and a file that cannot be read
\* is an error, a missing one included; a .yaml or .yml file is converted
\* and the result decoded into the struct.  stat is the file system's answer
\* for fn: missing, good or bad (bytes no decoder accepts).
BindFile(fn, stat) ==
    LET ext == ToLower(Ext(fn))
    IN  IF stat = "missing" THEN [err |-> "not exist", merged |-> FALSE]
        ELSE IF ext \in {<<".", "y", "a", "m", "l">>, <<".", "y", "m", "l">>} /\ stat = "bad"
             THEN [err |-> "yaml", merged |-> FALSE]
        ELSE IF stat = "bad" THEN [err |-> "json", merged |-> FALSE]
        ELSE [err |-> "", merged |-> TRUE]

\* An end of Bind that loads whatever the ",file" field holds, "" included.
BindConfigAnyPath(st, stat) ==
    IF st.cfgFile # 0
    THEN LET fn == st.vals[st.cfgFile]
             r == BindFile(fn, stat)
         IN  [st EXCEPT !.loads = Append(@, fn), !.merged = r.merged, !.err = r.err]
    ELSE st

\* The end of Bind: with a ",file" field that holds a path, BindFile on it.
BindConfig(st, stat) ==
    IF st.cfgFile # 0 /\ st.vals[st.cfgFile] # <<>>
    THEN LET fn == st.vals[st.cfgFile]
             r == BindFile(fn, stat)
         IN  [st EXCEPT !.loads = Append(@, fn), !.merged = r.merged, !.err = r.err]
    ELSE st

\* --------------------------------------- ParseStruct(set, value, fOpts)

\* The loop of ParseStruct(set, value, fOpts) over the struct's fields: the
\* loop of Bind, on FieldItem values and on the given flag set.
RECURSIVE ParseStructFrom(_, _, _, _, _)
ParseStructFrom(st, fields, opts, env, i) ==
    IF i > Len(fields) \/ st.err # "" THEN st
    ELSE Only({
        LET f == fields[i]
            isFile == HasSuffix(named, FileSuffix) /\ f.type = Scalar("string")
            name == IF isFile THEN TrimSuffix(named, FileSuffix) ELSE named
            EnvKey == IF f.env = <<"-">> THEN <<>>
                      ELSE IF f.env = <<>> THEN jEnvKey(ToUpper(name), opts.EnvPrefix)
                      ELSE jEnvKey(f.env, opts.EnvPrefix)
            v == IF f.env # <<"-">> /\ EnvKey \in DOMAIN env THEN env[EnvKey] ELSE <<>>
            Short == fieldTag(f.short)
            Alias == fieldsSplit(fieldTag(f.alias))
            names == <<name>> \o Alias \o (IF Short # <<>> THEN <<Short>> ELSE <<>>)
            usages == <<fieldTag(f.usage)>>
                          \o [j \in 1..Len(Alias) |-> AliasOf \o name]
                          \o (IF Short # <<>> THEN <<ShortOf \o name>> ELSE <<>>)
            filed == IF isFile THEN [st EXCEPT !.cfgFile = i] ELSE st
        IN  IF named = <<"-">> THEN ParseStructFrom(st, fields, opts, env, i + 1)
            ELSE Only({
                LET set == IF v = <<>> THEN filed
                           ELSE [filed EXCEPT !.vals[i] = r.v,
                                              !.log = Append(@, SetCall(i, "env", v, r.err))]
                IN  IF v # <<>> /\ r.err # "" THEN [set EXCEPT !.err = r.err]
                    ELSE Only({ ParseStructFrom(reg, fields, opts, env, i + 1)
                                : reg \in {VarAll(set, names, usages, i)} })
                : r \in {FieldItemSet(f.type, st.vals[i], v)} })
        : named \in {fieldName(fields[i], opts.Prefix)} })
ParseStructFields(fields, opts, env) ==
    ParseStructFrom(Binding(fields), fields, opts, env, 1)

\* os.Args: the program's name, then the arguments.
ProgName == <<"a", "p", "p">>
Arg0(name) == [word |-> name]
Argv(args) == <<Arg0(ProgName)>> \o args

\* Whether flag.FlagSet.Parse stops at argument a: a text shorter than two
\* characters or not starting with '-' is no flag, and ends the parse.
NonFlag(a) == "word" \in DOMAIN a /\ (Len(a.word) < 2 \/ a.word[1] # "-")

\* The flags of argv that the parse reaches: those before the first argument
\* that is no flag.
RECURSIVE FlagsBefore(_)
FlagsBefore(argv) ==
    IF argv = <<>> \/ NonFlag(argv[1]) THEN <<>>
    ELSE <<argv[1]>> \o FlagsBefore(Tail(argv))

\* set.Parse(arguments) of a flag.FlagSet whose values are FieldItems.
RECURSIVE itemParseFrom(_, _, _, _)
itemParseFrom(st, fields, args, n) ==
    IF n > Len(args) \/ st.err # "" THEN st
    ELSE LET o == args[n]
             j == flagLookup(st.flags, o)
             i == st.flags[j].field
             t == fields[i].type
             takesNext == ~o.hasVal /\ ~IsBool(t)
             text == IF o.hasVal THEN o.val
                     ELSE IF IsBool(t) THEN TrueText
                     ELSE ArgText(args[n + 1])
         IN  IF j = 0 THEN [st EXCEPT !.err = "not defined"]
             ELSE IF takesNext /\ n = Len(args) THEN [st EXCEPT !.err = "needs an argument"]
             ELSE Only({ itemParseFrom(set, fields, args, IF takesNext THEN n + 2 ELSE n + 1)
                         : set \in { [st EXCEPT !.vals[i] = r.v,
                                                !.log = Append(@, SetCall(i, "arg", text, r.err)),
                                                !.err = IF r.err = "" THEN "" ELSE "invalid value"]
                                     : r \in {FieldItemSet(t, st.vals[i], text)} } })
flagSetParse(st, fields, argv) == itemParseFrom(st, fields, FlagsBefore(argv), 1)

\* pflag's VarP(value, name, shorthand, usage): AddFlag panics on a name
\* already in the set, on a shorthand of more than one character and on a
\* shorthand already in the set.
VarP(st, i, name, shorthand, usage) ==
    IF Redefined(st.flags, name, shorthand) \/ Len(shorthand) > 1
    THEN [st EXCEPT !.err = "panic"]
    ELSE [st EXCEPT !.flags = Append(@, Flag(name, shorthand, usage, <<>>, i))]

\* BindFile(structPtr, name, shorthand, defVal, usage, set): a config-file
\* value whose path is defVal goes to set.VarP(v, shorthand, defVal, usage).
BindFileVarP(st, i, name, shorthand, defVal, usage) ==
    VarP([st EXCEPT !.vals[i] = defVal], i, shorthand, defVal, usage)

\* The texts handed to Set: a prefix, a stem and an extension.
CfPrefixes ==
    { <<>>, tJson \o <<":">>, tYaml \o <<":">>, tToml \o <<":">>, tIni \o <<":">>,
      <<"x", ":">>, <<":">> }
CfStems == { <<>>, <<"a">>, <<"d", ".", "v", "/", "a">> }
CfExts ==
    { <<>>, <<".">> \o tJson, <<".">> \o tYaml, <<".", "y", "m", "l">>, <<".">> \o tToml,
      <<".">> \o tIni, <<".">> \o tJson \o <<"c">>, <<".", "t", "m", "l">>,
      <<".", "t", "x", "t">> }
CfInputs == { p \o m \o e : p \in CfPrefixes, m \in CfStems, e \in CfExts }

InitFile ==
    /\ cfStat \in {"missing", "good", "bad"}
    /\ cfIn \in CfInputs
    /\ cfPath = <<>> /\ cfType = "" /\ cfFile = <<>> /\ cfRead = FALSE /\ cfErr = ""
    /\ cfCt = <<>> /\ cfCtPath = <<>>
    /\ cfOp = "new"
    /\ environ = NoEnviron /\ osArgs = <<>>
    /\ CodecIdle /\ LookupIdle /\ BinderIdle /\ NamesIdle /\ VarIdle

\* (*configFileValue).Set(cfIn)
ConfigFileSet ==
    /\ cfOp = "new"
    /\ \E r \in {configFileValueSet(cfIn, cfStat)} :
        /\ cfType' = r.type /\ cfFile' = r.file /\ cfRead' = r.read /\ cfErr' = r.err
    /\ cfPath' = cfIn
    /\ cfOp' = "set"
    /\ UNCHANGED <<varVars, cfStat, cfIn, cfCt, cfCtPath, nameVars, codecVars, environ, osArgs,
                   envVars, binderVars>>

\* ct, path := getCotentType(cfIn)
ContentType ==
    /\ cfOp = "new"
    /\ \E r \in {getCotentType(cfIn)} : cfCt' = r.ct /\ cfCtPath' = r.path
    /\ cfOp' = "typed"
    /\ UNCHANGED <<varVars, cfStat, cfIn, cfPath, cfType, cfFile, cfRead, cfErr, nameVars, codecVars,
                   environ, osArgs, envVars, binderVars>>

NextFile == ConfigFileSet \/ ContentType

SpecFile == InitFile /\ [][NextFile]_vars

\* --------------------------------------------------- binding as a machine

Init ==
    /\ bApi \in {"pflag", "flag"}
    /\ bStruct \in Structs \cup ConnStructs \cup WhenStructs \cup FileStructs
    /\ bOpts \in OptionsFor(bApi, bStruct)
    /\ environ \in EnvironsFor(bStruct)
    /\ osArgs \in ArgListsFor(bStruct)
    /\ bound = Binding(bStruct)
    /\ bErrs = <<>>
    /\ pArgs = <<>>
    /\ pc = "new"
    /\ cfStat \in FileStats(bStruct)
    /\ cfIn = <<>> /\ cfPath = <<>> /\ cfType = "" /\ cfFile = <<>> /\ cfRead = FALSE
    /\ cfErr = "" /\ cfCt = <<>> /\ cfCtPath = <<>> /\ cfOp = "idle"
    /\ CodecIdle /\ LookupIdle /\ NamesIdle /\ VarIdle

\* (*Set).Struct(pStruct) on a Set made by New()
SetStruct ==
    /\ bApi = "pflag" /\ pc = "new"
    /\ \E r \in {StructToSet(bStruct, environ)} :
        /\ bound' = r
        /\ bErrs' = IF r.err \in {"", "panic"} THEN bErrs ELSE Append(bErrs, r.err)
        /\ pc' = IF r.err = "panic" THEN "panic" ELSE "bound"
        /\ UNCHANGED <<varVars, nameVars, fileVars, codecVars, environ, osArgs, envVars, bApi, bStruct, bOpts, pArgs>>

\* (*Set).ParseArgs(args): whatever args is, the set parses os.Args[1:], and
\* exits on an error.
ParseArgs(args) ==
    /\ bApi = "pflag" /\ pc = "bound"
    /\ \E r \in {pflagParseFrom([bound EXCEPT !.err = ""], bStruct, osArgs, 1)} :
        /\ bound' = r
        /\ pc' = IF r.err = "" THEN "parsed" ELSE "exit"
    /\ pArgs' = args
    /\ UNCHANGED <<varVars, nameVars, fileVars, codecVars, environ, osArgs, envVars, bApi, bStruct, bOpts, bErrs>>

\* (*Set).Parse() is ParseArgs(os.Args[1:]).
SetParse == ParseArgs(osArgs)

\* ParseArgs called by the program with a slice of its own.
OwnArgs == { <<>>, <<Occ(TRUE, nPort, TRUE, <<"8">>)>>, <<Occ(TRUE, nNums, TRUE, <<"1">>)>> }
SetParseArgs == \E args \in OwnArgs : ParseArgs(args)

\* Bind(value, fOpts): the loop over the fields, then the parse of os.Args[1:].
Bind ==
    /\ bApi = "flag" /\ pc = "new"
    /\ \E reg \in {BindFields(bStruct, bOpts, environ)} :
       \E r \in {IF reg.err # "" THEN reg ELSE flagParseFrom(reg, bStruct, osArgs, 1)} :
        /\ bound' = r
        /\ pc' = IF r.err = "" THEN "parsed"
                 ELSE IF r.err = "panic" THEN "panic" ELSE "failed"
        /\ UNCHANGED <<varVars, nameVars, fileVars, codecVars, environ, osArgs, envVars, bApi, bStruct, bOpts, bErrs, pArgs>>

\* Bind after a parse without error: the config file is loaded, and an error
\* of BindFile is Bind's.
BindLoad ==
    /\ bApi = "flag" /\ pc = "parsed"
    /\ \E r \in {BindConfig(bound, cfStat)} :
        /\ bound' = r
        /\ pc' = IF r.err = "" THEN "done" ELSE "failed"
    /\ UNCHANGED <<varVars, nameVars, fileVars, codecVars, environ, osArgs, envVars, bApi, bStruct,
                   bOpts, bErrs, pArgs>>

\* ParseStruct(pStruct) of the package: StructToSet on the default set, an
\* exit when it fails, and Parse() otherwise.
ParseStruct ==
    /\ bApi = "pflag" /\ pc = "new"
    /\ \E reg \in {StructToSet(bStruct, environ)} :
       \E r \in {IF reg.err # "" THEN reg ELSE pflagParseFrom(reg, bStruct, osArgs, 1)} :
        /\ bound' = r
        /\ pc' = IF reg.err = "panic" THEN "panic"
                 ELSE IF r.err = "" THEN "parsed" ELSE "exit"
        /\ pArgs' = IF reg.err = "" THEN osArgs ELSE pArgs
    /\ UNCHANGED <<varVars, nameVars, fileVars, codecVars, environ, osArgs, envVars, bApi, bStruct, bOpts, bErrs>>

Next == SetStruct \/ SetParse \/ SetParseArgs \/ Bind \/ BindLoad \/ ParseStruct

Spec == Init /\ [][Next]_vars

\* ------------------------------------------- single variables as a machine

\* The variables handed to Var (a field stands for the variable, its tags for
\* the name, shorthand and usage of the call), the option lists of up to
\* MaxOpts ItemOptions, the key lists, environments and command lines.
MaxOpts == 2
VarTargets == { <<fNoEnv>>, <<fNums>> }
\* The arguments of BindFile as a field: name, shorthand, defVal and usage.
BindFileTargets ==
    { <<Field(<<"C", "o", "n", "f", "i", "g">>, TRUE, nConfig, nOld, <<>>, c, <<>>,
              Scalar("string"), d)>>
      : c \in {<<>>, <<"c">>}, d \in {<<>>, <<"d">>, pathD} }
ItemOptionPool ==
    { Hidden, Deprecated(nOld), Shorthand(<<"p">>, <<>>), Shorthand(<<"p">>, <<nOld>>),
      Annotation(<<"k">>, <<"v">>), Env(<<kPORT>>), Usage(nPort) }
OptionLists == UNION {[1..n -> ItemOptionPool] : n \in 0..MaxOpts}
VarKeyLists == { <<>>, <<kPORT>>, <<kALT, kPORT>> }
VarEnvirons == { e \in Environs : e[kNUMS] = <<>> /\ e[kDash] = <<>> }
VarArgLists ==
    { <<>>, <<Occ(TRUE, nPort, TRUE, <<"8">>)>>, <<Occ(FALSE, <<"p">>, TRUE, <<"8">>)>>,
      <<Occ(TRUE, nNums, TRUE, <<"1">>)>> }

InitVar ==
    /\ bApi \in {"pflag", "FlagSet", "BindFile"}
    /\ bStruct \in (IF bApi = "BindFile" THEN BindFileTargets ELSE VarTargets)
    /\ bOpts = Options(<<>>, <<>>)
    /\ vOpts \in (IF bApi = "pflag" THEN OptionLists ELSE {<<>>})
    /\ vKeys \in (IF bApi = "FlagSet" THEN VarKeyLists ELSE {<<>>})
    /\ envKeys = NilMap
    /\ environ \in VarEnvirons
    /\ osArgs \in VarArgLists
    /\ bound = Binding(bStruct)
    /\ bErrs = <<>>
    /\ pArgs = <<>>
    /\ pc = "new"
    /\ CodecIdle /\ LookupIdle /\ NamesIdle /\ FileIdle

\* (*Set).Var(val, name, itemOptions...) on a Set made by New()
SetVar ==
    /\ bApi = "pflag" /\ pc = "new"
    /\ \E r \in {AddItemToSet(bound, environ, 1, bStruct[1].type, bStruct[1].flag, vOpts)} :
        /\ bound' = r
        /\ bErrs' = IF r.err \in {"", "panic"} THEN bErrs ELSE Append(bErrs, r.err)
        /\ pc' = IF r.err = "panic" THEN "panic" ELSE "bound"
    /\ UNCHANGED <<varVars, nameVars, fileVars, codecVars, environ, osArgs, envVars, bApi,
                   bStruct, bOpts, pArgs>>

\* (*FlagSet).Var(v, name, short, usage, env...) on a FlagSet made by NewSet()
NewSetVar ==
    /\ bApi = "FlagSet" /\ pc = "new"
    /\ \E r \in {FlagSetVar(bound, envKeys, 1, bStruct[1].type, bStruct[1].flag,
                             bStruct[1].short, bStruct[1].usage, vKeys)} :
        /\ bound' = r.set
        /\ envKeys' = r.envKeys
        /\ pc' = IF r.set.err = "panic" THEN "panic" ELSE "bound"
    /\ UNCHANGED <<vOpts, vKeys, nameVars, fileVars, codecVars, environ, osArgs, envVars,
                   bApi, bStruct, bOpts, bErrs, pArgs>>

\* (*FlagSet).ParseFrom(args), and Parse(): the flags are visited, then the
\* set parses os.Args[1:] and exits on an error.
ParseFrom ==
    /\ bApi = "FlagSet" /\ pc = "bound"
    /\ \E seen \in {VisitAllFrom(bound, envKeys, bStruct, environ, 1)} :
       \E r \in {pflagParseFrom(seen, bStruct, osArgs, 1)} :
        /\ bound' = r
        /\ pc' = IF r.err = "" THEN "parsed" ELSE "exit"
    /\ UNCHANGED <<varVars, nameVars, fileVars, codecVars, environ, osArgs, envVars, bApi,
                   bStruct, bOpts, bErrs, pArgs>>

\* BindFile(structPtr, name, shorthand, defVal, usage, set) on a pflag set
BindFileVar ==
    /\ bApi = "BindFile" /\ pc = "new"
    /\ \E r \in {BindFileVarP(bound, 1, bStruct[1].flag, bStruct[1].short,
                              bStruct[1].def, bStruct[1].usage)} :
        /\ bound' = r
        /\ pc' = IF r.err = "panic" THEN "panic" ELSE "bound"
    /\ UNCHANGED <<varVars, nameVars, fileVars, codecVars, environ, osArgs, envVars, bApi,
                   bStruct, bOpts, bErrs, pArgs>>

NextVar == SetVar \/ SetParse \/ NewSetVar \/ ParseFrom \/ BindFileVar

SpecVar == InitVar /\ [][NextVar]_vars

\* ------------------------------- ParseStruct(set, value, fOpts) as a machine

StructPool == { <<fPort>>, <<fNums>>, <<fAlias, fNums>>, <<fDebug, fNums>> } \cup FileStructs

InitStruct ==
    /\ bApi = "struct"
    /\ bStruct \in StructPool
    /\ bOpts \in OptionsPool
    /\ environ \in EnvironsFor(bStruct)
    /\ osArgs \in ArgListsFor(bStruct)
    /\ bound = Binding(bStruct)
    /\ bErrs = <<>>
    /\ pArgs = <<>>
    /\ pc = "new"
    /\ cfStat \in FileStats(bStruct)
    /\ cfIn = <<>> /\ cfPath = <<>> /\ cfType = "" /\ cfFile = <<>> /\ cfRead = FALSE
    /\ cfErr = "" /\ cfCt = <<>> /\ cfCtPath = <<>> /\ cfOp = "idle"
    /\ CodecIdle /\ LookupIdle /\ NamesIdle /\ VarIdle

\* ParseStruct(set, value, fOpts): the loop over the fields, then
\* set.Parse(os.Args), the program's name included.
ParseStructOn ==
    /\ bApi = "struct" /\ pc = "new"
    /\ \E reg \in {ParseStructFields(bStruct, bOpts, environ)} :
       \E r \in {IF reg.err # "" THEN reg ELSE flagSetParse(reg, bStruct, Argv(osArgs))} :
        /\ bound' = r
        /\ pc' = IF r.err = "" THEN "parsed"
                 ELSE IF r.err = "panic" THEN "panic" ELSE "failed"
    /\ UNCHANGED <<varVars, nameVars, fileVars, codecVars, environ, osArgs, envVars, bApi,
                   bStruct, bOpts, bErrs, pArgs>>

\* ParseStruct after a parse without error: the config file is loaded.
ParseStructLoad ==
    /\ bApi = "struct" /\ pc = "parsed"
    /\ \E r \in {BindConfig(bound, cfStat)} :
        /\ bound' = r
        /\ pc' = IF r.err = "" THEN "done" ELSE "failed"
    /\ UNCHANGED <<varVars, nameVars, fileVars, codecVars, environ, osArgs, envVars, bApi,
                   bStruct, bOpts, bErrs, pArgs>>

NextStruct == ParseStructOn \/ ParseStructLoad

SpecStruct == InitStruct /\ [][NextStruct]_vars

\* ---------------------------------------------------- claims on the codec

\* Whether text s denotes a value of scalar kind k, at the kind's own width.
ValidFor(k, s) ==
    CASE k = "bool" -> ParseBool(s).ok
      [] k \in SignedKinds -> ParseInt(s, 10, Bits(k)).ok
      [] k \in UnsignedKinds -> ParseUint(s, 10, Bits(k)).ok
      [] k = "float64" -> ParseFloat(s).ok
      [] k = "string" -> TRUE
      [] k = "duration" -> ParseDuration(s).ok
      [] k = "time" -> ParseTime(s).ok
      [] k = "ip" -> ParseIP(s) # <<>>

\* The value a valid text denotes.
ParsedValue(k, s) ==
    CASE k = "bool" -> ParseBool(s).v
      [] k \in SignedKinds -> ParseInt(s, 10, Bits(k)).v
      [] k \in UnsignedKinds -> ParseUint(s, 10, Bits(k)).v
      [] k = "float64" -> ParseFloat(s).v
      [] k = "string" -> s
      [] k = "duration" -> ParseDuration(s).v
      [] k = "time" -> ParseTime(s).v
      [] k = "ip" -> ParseIP(s)

\* A fieldValue.Set call on a sequence field with a non-empty valid text.
SeqSetDone ==
    /\ cOp = "Set"
    /\ cImpl = "fieldValue"
    /\ cType.seq
    /\ cIn # <<>>
    /\ ValidFor(cType.elem, cIn)

\* C6 as stated: on a sequence field of any scalar kind, Set with a non-empty
\* valid text appends exactly the parsed element and keeps the earlier ones.
C6_EverySequenceAppends ==
    SeqSetDone => cVal = Append(cPrev, ParsedValue(cType.elem, cIn))

\* C6 amended: the same for every element kind but uint8; a []uint8 field is
\* a []byte, which Set replaces by the bytes of the text.
C6_SequenceAppends ==
    (SeqSetDone /\ cType.elem # "uint8")
        => cVal = Append(cPrev, ParsedValue(cType.elem, cIn))

\* C6 witness: Set("2") after Set("1") on an empty []int leaves [1, 2].
C6_Witness ==
    /\ SeqSetDone
    /\ cType = SliceOf("int")
    /\ cIn = <<"2">>
    /\ cPrev = <<1>>
    /\ cVal = <<1, 2>>

\* Equality of two values of kind k: net.IP.Equal for addresses (the 4-byte
\* and the 16-byte form of an IPv4 address are the same address), = otherwise.
SameValue(k, a, b) ==
    IF k = "ip"
    THEN (IF Len(a) = 4 THEN V4InV6Prefix \o a ELSE a) = (IF Len(b) = 4 THEN V4InV6Prefix \o b ELSE b)
    ELSE a = b

\* C7 as stated: Set(String(v)) on a zero field gives v back, for every scalar
\* kind but float and every value, the zero value included.
C7_RoundTripAll ==
    (cOp = "RoundTrip" /\ cType.elem # "float64") => SameValue(cType.elem, cVal, cPrev)

\* The values whose text carries all of the value.
RoundTrips(k, v) ==
    CASE k = "bool" -> v = TRUE
      [] k = "time" -> v.ns = 0
      [] OTHER -> TRUE

\* C7 amended: Set(String(v)) on a zero field gives v back for true, every
\* integer, string, duration and IP address, and every timestamp without
\* nanoseconds; not for false, nor for a timestamp that has nanoseconds.
C7_RoundTrip ==
    (cOp = "RoundTrip" /\ cType.elem # "float64" /\ RoundTrips(cType.elem, cPrev))
        => SameValue(cType.elem, cVal, cPrev)

\* C7 witness: the duration 1m30s is formatted, parsed and found again.
C7_Witness ==
    /\ cOp = "RoundTrip"
    /\ cType = Scalar("duration")
    /\ cPrev = 90
    /\ cIn = <<"1", "m", "3", "0", "s">>
    /\ cVal = 90

\* C8: Set("") returns no error; it stores true in a bool field and leaves a
\* field of any other type as it was.
C8_EmptyInput ==
    (cOp = "Set" /\ cIn = <<>>)
        => /\ cErr = ""
           /\ IF cType = Scalar("bool") THEN cVal = TRUE ELSE cVal = cPrev

\* C8 witness: Set("") on a bool field holding false.
C8_Witness ==
    /\ cOp = "Set"
    /\ cIn = <<>>
    /\ cType = Scalar("bool")
    /\ cPrev = FALSE
    /\ cVal = TRUE

\* C9 as stated: on an integer field, Set with text that is malformed or does
\* not fit the field's width returns an error and stores nothing.
C9_OutOfRangeRejected ==
    (/\ cOp = "Set"
     /\ ~cType.seq
     /\ cType.elem \in SignedKinds \cup UnsignedKinds
     /\ cIn # <<>>
     /\ ~ValidFor(cType.elem, cIn))
        => (cErr # "" /\ cVal = cPrev)

\* C10: a Set call that returns an error leaves the field as it was.
C10_ErrorLeavesField ==
    (cOp = "Set" /\ cErr # "") => cVal = cPrev

\* C10 witness: a malformed element for a []int holding [1].
C10_Witness ==
    /\ cOp = "Set"
    /\ cImpl = "fieldValue"
    /\ cErr # ""
    /\ cType = SliceOf("int")
    /\ cIn = <<"x">>
    /\ cPrev = <<1>>
    /\ cVal = <<1>>
\* --------------------------------------------- claims on the environment

\* The positions of the keys whose variable holds a non-empty value.
SetKeys(env, keys) == {k \in 1..Len(keys) : Getenv(env, keys[k]) # <<>>}
FirstSetKey(env, keys) == CHOOSE k \in SetKeys(env, keys) : \A m \in SetKeys(env, keys) : k <= m

\* C3: getEnv(keys) and GetEnv(keys, def) return the value of the first key,
\* in the order given, whose variable holds a non-empty value; when no key
\* does, getEnv returns the empty string and GetEnv returns def.
C3_FirstNonEmptyKey ==
    eOp = "looked" =>
        IF SetKeys(environ, eKeys) = {}
        THEN eGot = <<>> /\ eGotDef = eDef
        ELSE /\ eGot = environ[eKeys[FirstSetKey(environ, eKeys)]]
             /\ eGotDef = eGot

\* A lookup whose first key is unset and whose second key answers, and one
\* whose two keys both hold a value.
C3_Witness ==
    /\ eOp = "looked"
    /\ eKeys = <<kALT, kPORT>>
    /\ environ[kALT] # <<>> /\ environ[kPORT] # <<>> /\ environ[kALT] # environ[kPORT]
    /\ eGot = environ[kALT]

\* ------------------------------------------------- claims on the binders

Registered(i) == \E j \in 1..Len(bound.flags) : bound.flags[j].field = i
SetFrom(i, src) == \E n \in 1..Len(bound.log) : bound.log[n].field = i /\ bound.log[n].src = src

\* What the same command line leaves in the fields when no variable of the
\* environment is set.
CommandLineAlone ==
    pflagParseFrom(StructToSet(bStruct, NoEnviron), bStruct, osArgs, 1)

\* C1: for a field registered through StructToSet / AddToSet, of any kind,
\* whose environment key holds a non-empty value and whose flag is supplied
\* on the command line, the value after Parse is the command line's value
\* alone: the environment's value leaves no trace.
C1_CommandLineWins ==
    (bApi = "pflag" /\ pc = "parsed") =>
        \A i \in 1..Len(bStruct) :
            (/\ Registered(i)
             /\ getEnv(environ, Fields(bStruct[i].env)) # <<>>
             /\ SetFrom(i, "arg"))
                => bound.vals[i] = CommandLineAlone.vals[i]

\* Whether text s parses as a value of type t, and the value it denotes.
Parses(t, s) == pflagSet(t, ZeroOf(t), FALSE, s).err = ""
Denoted(t, s) == pflagSet(t, ZeroOf(t), FALSE, s).v

C4_DashNeverReadsEnv ==
    \A i \in 1..Len(bStruct) :
        bStruct[i].env = <<"-">> => ~SetFrom(i, "env")

\* C5: a field tagged flag:"-" is never registered, under no name, alias or
\* shorthand: no flag of the set (the items help is printed from) is the
\* field's, no argument and no environment variable sets it, and it keeps its
\* value, under StructToSet and under Bind.
C5_DashNeverRegistered ==
    \A i \in 1..Len(bStruct) :
        fieldTag(bStruct[i].flag) = <<"-">> =>
            /\ ~Registered(i)
            /\ ~SetFrom(i, "arg") /\ ~SetFrom(i, "env")
            /\ bound.vals[i] = bStruct[i].def

\* Bind with a name prefix has gone over a struct whose first field is
\* tagged flag:"-" and has registered the second.
C5_Witness ==
    /\ bApi = "flag" /\ pc = "parsed"
    /\ bOpts.Prefix # <<>>
    /\ bStruct = <<fSecret, fPort>>
    /\ Registered(2) /\ ~Registered(1)

\* Whether usage text u, with its first marker at ms, reads head, space, the
\* marker, space, tail, with the head of length hl and the tail from te on.
MarkedAt(u, hl, ms, te) ==
    /\ \A n \in (hl + 1)..(ms - 1) : IsSpace(u[n])
    /\ hl = 0 \/ ~IsSpace(u[hl])
    /\ \A n \in (ms + Len(Marker))..(te - 1) : IsSpace(u[n])
    /\ te > Len(u) \/ ~IsSpace(u[te])

\* Where the first marker of u starts, if u has one.
FirstMarker(u) ==
    {ms \in 1..(Len(u) - Len(Marker) + 1) :
        /\ SubSeq(u, ms, ms + Len(Marker) - 1) = Marker
        /\ \A m \in 1..(ms - 1) : SubSeq(u, m, m + Len(Marker) - 1) # Marker}

\* The usage AddToSet shows for a head and a list of environment keys.
Shown(head, keys) ==
    IF keys = <<>> THEN head
    ELSE (IF head = <<>> THEN <<>> ELSE head \o <<" ">>) \o <<"[">> \o Join(keys, <<",", " ">>) \o <<"]">>

\* C11: a flag registered through AddToSet whose usage reads head, space,
\* **DEPRECATED**, space, tail shows the head alone (then the bracketed list of
\* its environment keys, if it has any) and records the tail as its
\* deprecation note, or "deprecated" when the tail is empty.
C11_DeprecationMark ==
    bApi = "pflag" =>
        \A j \in 1..Len(bound.flags) :
            LET f == bStruct[bound.flags[j].field]
                u == f.usage
            IN  \A ms \in FirstMarker(u) :
                \A hl \in 0..(ms - 1), te \in (ms + Len(Marker))..(Len(u) + 1) :
                    MarkedAt(u, hl, ms, te) =>
                        /\ bound.flags[j].usage = Shown(SubSeq(u, 1, hl), Fields(f.env))
                        /\ bound.flags[j].deprecated =
                               IF te > Len(u)
                               THEN <<"d", "e", "p", "r", "e", "c", "a", "t", "e", "d">>
                               ELSE SubSeq(u, te, Len(u))

\* Both marked flags are registered: one with a tail and an environment key,
\* one with neither.
C11_Witness ==
    /\ bApi = "pflag" /\ pc = "bound"
    /\ bStruct = <<fOld, fGone>>
    /\ Len(bound.flags) = 2
    /\ bound.flags[1].usage = nOld \o <<" ", "[">> \o kPORT \o <<"]">>
    /\ bound.flags[1].deprecated = <<"u", "s", "e", " ", "n", "e", "w">>
    /\ bound.flags[2].usage = <<>>
    /\ bound.flags[2].deprecated = <<"d", "e", "p", "r", "e", "c", "a", "t", "e", "d">>

\* The canonical name Bind gives field f, and the names f can be set by.
CanonicalName(f, opts) == TrimSuffix(fieldName(f, opts.Prefix), FileSuffix)
OtherNames(f) ==
    {fieldsSplit(fieldTag(f.alias))[n] : n \in 1..Len(fieldsSplit(fieldTag(f.alias)))}
        \cup (IF fieldTag(f.short) = <<>> THEN {} ELSE {fieldTag(f.short)})

\* The command line with every alias and shorthand of a bound field replaced
\* by the field's canonical name.
Canonical(args) ==
    [n \in 1..Len(args) |->
        LET owners == {i \in 1..Len(bStruct) :
                          /\ fieldName(bStruct[i], bOpts.Prefix) # <<"-">>
                          /\ args[n].name \in OtherNames(bStruct[i])}
        IN  IF owners = {} THEN args[n]
            ELSE [args[n] EXCEPT !.name = CanonicalName(bStruct[CHOOSE i \in owners : TRUE], bOpts)]]

\* What Bind leaves, as far as it has run, when the command line uses
\* canonical names only.
CanonicalRun ==
    LET reg == BindFields(bStruct, bOpts, environ)
        parsed == IF reg.err # "" THEN reg
                  ELSE flagParseFrom(reg, bStruct, Canonical(osArgs), 1)
    IN  IF parsed.err # "" \/ pc = "parsed" THEN parsed ELSE BindConfig(parsed, cfStat)

\* C12: in Bind the canonical name, every alias and the shorthand of a field
\* are flags of their own on the same field: a command line that names a field
\* by an alias or by its shorthand succeeds or fails, and leaves every field,
\* exactly as the command line with the canonical name in its place does.
C12_AliasesShareTheField ==
    (bApi = "flag" /\ pc # "new") =>
        /\ bound.vals = CanonicalRun.vals
        /\ (bound.err = "") = (CanonicalRun.err = "")

\* An alias and the shorthand have each set the first field; the second field
\* keeps its value.
C12_Witness ==
    /\ bApi = "flag" /\ pc = "parsed"
    /\ bStruct = <<fAlias, fNums>>
    /\ osArgs = <<Occ(TRUE, nListen, TRUE, <<"6">>), Occ(FALSE, <<"p">>, TRUE, <<"8">>)>>
    /\ bound.vals = <<8, <<7>> \o (IF environ[kNUMS] = <<>> THEN <<>> ELSE <<5>>)>>

\* The key the spec derives for a flag name: the prefix, then the name in
\* upper case, every '-' of the whole written as '_'.
DerivedKey(name, prefix) ==
    LET whole == prefix \o ToUpper(name)
    IN  [n \in 1..Len(whole) |-> IF whole[n] = "-" THEN "_" ELSE whole[n]]

EnvTextsSet(i) ==
    {bound.log[n].text : n \in {m \in 1..Len(bound.log) :
                               bound.log[m].field = i /\ bound.log[m].src = "env"}}

\* C13: a field bound by Bind without an env tag consults one variable only,
\* EnvPrefix followed by the flag name in upper case with '-' written '_': the
\* field is set from the environment only with that variable's non-empty
\* value, and when that variable is unset and no argument names the field, the
\* field keeps its default whatever other variables hold.
C13_DerivedKeyIsExact ==
    (bApi = "flag" /\ pc # "new") =>
        \A i \in 1..Len(bStruct) :
            LET f == bStruct[i]
                key == DerivedKey(CanonicalName(f, bOpts), bOpts.EnvPrefix)
            IN  (fieldName(f, bOpts.Prefix) # <<"-">> /\ f.env = <<>>) =>
                    /\ EnvTextsSet(i) \subseteq {Getenv(environ, key)} \ {<<>>}
                    /\ (pc = "parsed" /\ Getenv(environ, key) # <<>>) => SetFrom(i, "env")
                    /\ (Getenv(environ, key) = <<>> /\ ~SetFrom(i, "arg")) =>
                           bound.vals[i] = f.def

\* MAXCONN is set and MAX_CONN is not: max-conn keeps its default.
C13_Witness ==
    /\ bApi = "flag" /\ pc = "parsed"
    /\ bStruct = <<fMaxConn>> /\ bOpts = Options(<<>>, <<>>)
    /\ osArgs = <<>>
    /\ environ[kMAXCONN] = <<"5">> /\ environ[kMAX_CONN] = <<>>
    /\ bound.vals = <<10>>

\* What parsing the slice handed to ParseArgs leaves in the fields.
GivenArgsAlone ==
    pflagParseFrom([StructToSet(bStruct, environ) EXCEPT !.err = ""], bStruct, pArgs, 1)

\* C14: ParseArgs(args) (as ParseFrom(args)) parses the slice it is handed:
\* the field values after the call are those the registered flags take from
\* args, whatever os.Args holds.
C14_ParsesTheGivenSlice ==
    (bApi = "pflag" /\ pc \in {"parsed", "exit"}) =>
        /\ bound.vals = GivenArgsAlone.vals
        /\ (pc = "parsed") = (GivenArgsAlone.err = "")

\* C15: when the struct has an exported field with a flag tag other than "-"
\* and a type that no flag value exists for, binding through the pflag set
\* never ends with Parse returning true.
Unsupported(f) ==
    f.exported /\ f.flag # <<>> /\ f.flag # <<"-">> /\ ~Supported(f.type)

C15_UnsupportedTypeIsFatal ==
    (bApi = "pflag" /\ \E i \in 1..Len(bStruct) : Unsupported(bStruct[i]))
        => pc # "parsed"

C17_EveryExportedFieldRegistered ==
    (bApi = "pflag" /\ pc \in {"bound", "parsed"} /\ bErrs = <<>>) =>
        \A i \in 1..Len(bStruct) :
            (/\ bStruct[i].exported
             /\ bStruct[i].flag # <<"-">>
             /\ Supported(bStruct[i].type)) =>
                \E j \in 1..Len(bound.flags) :
                    /\ bound.flags[j].field = i
                    /\ bound.flags[j].name = f2ns(bStruct[i].flag, bStruct[i].ident).name

\* ------------------------------------------------------ claims on names

\* The separators of a flag tag, and its tokens: the maximal runs of
\* characters that are not separators.
Separator(c) == c \in {" ", ",", ";", "\t", "\n", "\r"}
TokensOf(flag) ==
    { SubSeq(flag, a, b) : <<a, b>> \in
        { ab \in (1..Len(flag)) \X (1..Len(flag)) :
            /\ ab[1] <= ab[2]
            /\ \A k \in ab[1]..ab[2] : ~Separator(flag[k])
            /\ (ab[1] = 1 \/ Separator(flag[ab[1] - 1]))
            /\ (ab[2] = Len(flag) \/ Separator(flag[ab[2] + 1])) } }

\* C18: f2ns splits the flag tag on space, comma, semicolon and other
\* whitespace; the shorthand returned is empty or a one-character token of the
\* tag; the name returned is a token of more than one character when the tag
\* has one, and lower(def) otherwise, so it is not empty for a non-empty def.
C18_NameAndShorthand ==
    nOp = "f2ns" =>
        /\ nShort = <<>> \/ (Len(nShort) = 1 /\ nShort \in TokensOf(nFlag))
        /\ IF \E t \in TokensOf(nFlag) : Len(t) > 1
           THEN nName \in TokensOf(nFlag) /\ Len(nName) > 1
           ELSE nName = lower(nDef)
        /\ nDef # <<>> => nName # <<>>

\* f2ns has met a tag with the shorthand before the name, "b a|".
C18_Witness ==
    /\ nOp = "f2ns"
    /\ nFlag = <<"b", " ", "a", "|">>
    /\ nShort = <<"b">> /\ nName = <<"a", "|">>

\* The positions of s before which lower inserts '_': the uppercase letters
\* that are not first and do not follow an uppercase letter.
Breaks(s) == { i \in 2..Len(s) : IsUpper(s[i]) /\ ~IsUpper(s[i - 1]) }
Shifted(s, i) == i + Cardinality({ j \in Breaks(s) : j <= i })

\* C19: lower(s) holds no uppercase letter; it is s with every letter
\* lower-cased and one '_' put before each uppercase letter that is not first
\* and does not follow an uppercase letter, and nothing else; lower of the
\* result is the result.
C19_LowerInsertsUnderscores ==
    /\ nOp \in {"lower", "again"} =>
        /\ \A k \in 1..Len(nLower) : ~IsUpper(nLower[k])
        /\ Len(nLower) = Len(nDef) + Cardinality(Breaks(nDef))
        /\ \A i \in 1..Len(nDef) : nLower[Shifted(nDef, i)] = ToLowerChar(nDef[i])
        /\ \A i \in Breaks(nDef) : nLower[Shifted(nDef, i) - 1] = "_"
    /\ nOp = "again" => nAgain = nLower

\* lower has turned MaCx into ma_cx, and ma_cx into itself.
C19_Witness ==
    /\ nOp = "again"
    /\ nDef = <<"M", "a", "C", "x">>
    /\ nLower = <<"m", "a", "_", "c", "x">>
    /\ nAgain = nLower

\* ------------------------------------------------ claims on config files

\* The decoder the extension of a path stands for: .json is json, .yaml and
\* .yml are yaml, .toml is toml, .ini is ini; "" for any other.
ByExtension(path) ==
    LET ext == Ext(path)
    IN  CASE ext = <<".">> \o tJson -> "json"
          [] ext = <<".">> \o tYaml \/ ext = <<".", "y", "m", "l">> -> "yaml"
          [] ext = <<".">> \o tToml -> "toml"
          [] ext = <<".">> \o tIni -> "ini"
          [] OTHER -> ""

\* The decoder and the file a prefix "t:" with t among json, yaml, toml and
\* ini names; the decoder is "" without such a prefix.
ByPrefix(s) ==
    LET c == Cut(s)
    IN  IF c.found /\ c.before \in {tJson, tYaml, tToml, tIni}
        THEN [type |-> CASE c.before = tJson -> "json" [] c.before = tYaml -> "yaml"
                         [] c.before = tToml -> "toml" [] c.before = tIni -> "ini",
              file |-> c.after]
        ELSE [type |-> "", file |-> s]

\* C20: Set on a non-empty text "t:path" with t among json, yaml, toml and ini
\* hands decoder t the file path, whatever the extension of path; on a text
\* without such a prefix it hands the decoder of the text's extension the
\* text as file; with no decoder for the extension it returns the
\* 'unsupported config file' error and decodes nothing.
C20_DecoderSelection ==
    (cfOp = "set" /\ cfIn # <<>>) =>
        LET pre == ByPrefix(cfIn)
        IN  IF pre.type # "" THEN cfType = pre.type /\ cfFile = pre.file
            ELSE IF ByExtension(cfIn) # ""
                 THEN cfType = ByExtension(cfIn) /\ cfFile = cfIn
                 ELSE cfErr = "unsupported config file" /\ cfType = "" /\ ~cfRead

\* C29: for a text with a ':' whose part before the first ':' is none of
\* json, yaml, toml and ini, getCotentType returns the whole text as the path
\* and the content type of the text's extension.
C29_UnknownPrefixFallsBack ==
    (/\ cfOp = "typed"
     /\ Cut(cfIn).found
     /\ Cut(cfIn).before \notin {tJson, tYaml, tToml, tIni}) =>
        /\ cfCtPath = cfIn
        /\ cfCt = LET ext == TrimPrefix(Ext(cfIn))
                  IN  CASE ext = tJson \o <<"c">> -> tJson
                        [] ext = <<"y", "m", "l">> -> tYaml
                        [] ext = <<"t", "m", "l">> -> tToml
                        [] OTHER -> ext

\* The multi-character tokens of a tag start at these positions.
LongStarts(flag) ==
    { a \in 1..Len(flag) :
        /\ ~Separator(flag[a])
        /\ (a = 1 \/ Separator(flag[a - 1]))
        /\ a < Len(flag) /\ ~Separator(flag[a + 1]) }
TokenAt(flag, a) ==
    SubSeq(flag, a, CHOOSE b \in a..Len(flag) :
                        /\ \A k \in a..b : ~Separator(flag[k])
                        /\ (b = Len(flag) \/ Separator(flag[b + 1])))

\* C30: for a tag with several multi-character tokens f2ns returns the first
\* of them as the name, wherever a one-character token stands among them.
C30_FirstNameWins ==
    (nOp = "f2ns" /\ Cardinality(LongStarts(nFlag)) > 1) =>
        nName = TokenAt(nFlag, CHOOSE a \in LongStarts(nFlag) :
                                   \A c \in LongStarts(nFlag) : a <= c)

\* C21: when the path the config-file field holds names no file, the load
\* step of Bind reports no error and leaves the struct as the parse left it.
C21_MissingFileIsNoError ==
    (bApi = "flag" /\ cfStat = "missing" /\ bound.loads # <<>>) =>
        /\ pc = "done"
        /\ bound.err = ""
        /\ ~bound.merged

\* C22: in Bind the config-file loader runs at most once; it runs only when
\* the parse of the arguments has ended without error, on the path the string
\* field marked ",file" holds at that moment, which is not empty; it has not
\* run before the parse, and does not run after a parse error.
C22_LoaderRunsOnceAfterParse ==
    /\ [](/\ Len(bound.loads) <= 1
          /\ pc \in {"new", "parsed"} => bound.loads = <<>>
          /\ (\E n \in 1..Len(bound.log) : bound.log[n].err # "") => bound.loads = <<>>
          /\ bound.loads # <<>> =>
                /\ bApi = "flag" /\ bound.cfgFile # 0
                /\ bStruct[bound.cfgFile].type = Scalar("string")
                /\ HasSuffix(fieldName(bStruct[bound.cfgFile], bOpts.Prefix), FileSuffix)
                /\ bound.loads[1] # <<>>
                /\ bound.loads[1] = bound.vals[bound.cfgFile])
    /\ [][bound'.loads # bound.loads =>
            /\ pc = "parsed" /\ bound.err = "" /\ bound.loads = <<>>
            /\ bound'.loads = <<bound.vals[bound.cfgFile]>>]_vars

\* Bind has parsed --config=a.json and then loaded a.json.
C22_Witness ==
    /\ bApi = "flag" /\ pc = "done"
    /\ bound.loads = <<pathA>> /\ bound.merged
    /\ SetFrom(bound.cfgFile, "arg")

\* C24: in Bind an environment value its field rejects does not end the
\* binding: the fields declared after that field are still registered and the
\* command line is still parsed.
C24_EnvErrorDoesNotAbort ==
    (bApi = "flag" /\ pc # "new") =>
        \A n \in 1..Len(bound.log) :
            (bound.log[n].src = "env" /\ bound.log[n].err # "") =>
                /\ \A i \in (bound.log[n].field + 1)..Len(bStruct) :
                        fieldName(bStruct[i], bOpts.Prefix) # <<"-">> => Registered(i)
                /\ osArgs # <<>> =>
                        \/ \E k \in 1..Len(bound.log) : bound.log[k].src = "arg"
                        \/ bound.err \in {"not defined", "needs an argument"}

\* C25: when AddToSet, reached through Set.Struct, meets an environment value
\* the flag's value rejects, the failure reaches the caller: the Set's error
\* record holds it.
C25_EnvErrorIsSurfaced ==
    (bApi = "pflag" /\ pc = "bound") =>
        ((\E n \in 1..Len(bound.log) : bound.log[n].src = "env" /\ bound.log[n].err # "")
            => bErrs # <<>>)

\* ------------------------------------------- claims on single variables

\* C23: on a FlagSet of NewSet(), Var with one or more environment keys
\* registers the flag and records the keys under its name without failing;
\* the parse that follows sets the variable from the first key with a value.
C23_VarRecordsKeys ==
    (bApi = "FlagSet" /\ vKeys # <<>> /\ pc # "new") =>
        /\ pc # "panic"
        /\ Registered(1)
        /\ Keyed(envKeys, bStruct[1].flag) = vKeys
        /\ (pc \in {"parsed", "exit"} /\ GetEnv(environ, vKeys, <<>>) # <<>>) =>
                \E n \in 1..Len(bound.log) :
                    /\ bound.log[n].src = "env"
                    /\ bound.log[n].text = GetEnv(environ, vKeys, <<>>)

\* C27: the flag Set.Var registers shows every ItemOption handed to it: a
\* Hidden() makes it hidden, the last Deprecated(s) is its deprecation note,
\* the last Shorthand(c, d) gives its shorthand and the last d given its
\* shorthand deprecation, every Annotation(k, v) is among its annotations.
C27_OptionsReachTheFlag ==
    (bApi = "pflag" /\ pc = "bound" /\ bErrs = <<>> /\ vOpts # <<>> /\ Registered(1)) =>
        LET f == bound.flags[CHOOSE j \in 1..Len(bound.flags) : bound.flags[j].field = 1]
            it == applyAll(vOpts, Item(bStruct[1].flag))
        IN  /\ f.hidden = it.Hidden
            /\ (\E n \in 1..Len(vOpts) : vOpts[n].op = "Deprecated") => f.deprecated = it.Deprecated
            /\ f.short = it.Shorthand
            /\ f.shorthandDeprecated = it.ShorthandDeprecated
            /\ \A n \in 1..Len(vOpts) :
                    vOpts[n].op = "Annotation" =>
                        \E a \in 1..Len(f.annotations) :
                            f.annotations[a] = <<vOpts[n].s, vOpts[n].more[1]>>

\* C26: once ParseStruct(set, value, opts) has returned without error, every
\* flag occurrence of the command line (the arguments after the program's
\* name) has been applied to its field.
C26_CommandLineIsApplied ==
    (bApi = "struct" /\ pc \in {"parsed", "done"}) =>
        \A n \in 1..Len(osArgs) :
            osArgs[n].hasVal =>
                \E k \in 1..Len(bound.log) :
                    bound.log[k].src = "arg" /\ bound.log[k].text = osArgs[n].val

\* C28: BindFile(structPtr, name, shorthand, defVal, usage, set) leaves in
\* the set a flag whose name is name, whose shorthand is shorthand and whose
\* usage is usage, on a value whose path is defVal.
C28_BindFileRegistersName ==
    (bApi = "BindFile" /\ pc # "new") =>
        /\ pc = "bound"
        /\ bound.vals[1] = bStruct[1].def
        /\ \E j \in 1..Len(bound.flags) :
               /\ bound.flags[j].name = bStruct[1].flag
               /\ bound.flags[j].short = bStruct[1].short
               /\ bound.flags[j].usage = bStruct[1].usage

====
